---- MODULE Spec2Model ----
(***************************************************************************)
(* A model of the tool handlers of the OFBiz MCP server (src/src/tools and *)
(* src/unnamed).  Each handler is an async function: it runs synchronously *)
(* up to its next `await fetch(...)`, the backend answers, and the handler *)
(* continues up to the next await or to its return.  One action models one *)
(* such continuation.  JavaScript values are strings; `undefined` and      *)
(* `null` are the two distinguished strings UNDEF and NULL; objects are    *)
(* functions from key to value; a template literal is the sequence of its  *)
(* parts.                                                                  *)
(***************************************************************************)
EXTENDS Integers, Sequences, FiniteSets, TLC

VARIABLES
    serverConfig,   \* the process-wide ServerConfig (read-only)
    runtimeDirs,    \* the directories named `runtime` that exist at start
    targetDirs,     \* the directories created below a runtime directory
    files,          \* the files written below a runtime directory
    inv             \* the invocations: id -> the handler's state

vars == <<serverConfig, runtimeDirs, targetDirs, files, inv>>

----------------------------------------------------------------------------
(* Bounds of the model *)

MaxDocs == 2        \* rows in one performFind answer of a list tool
MaxLinks == 2       \* OrderHeaderWorkEffort rows followed by findOrderTasks

----------------------------------------------------------------------------
(* JavaScript values *)

UNDEF == "<undefined>"
NULL == "<null>"

\* Numbers are the strings of NumVals; "n0" is 0.
NumVals == {"n0", "n1", "n5", "n10", "n20", "n100", "n1700000000000"}

\* {} : the object without keys
EmptyObject == [k \in {} |-> UNDEF]

\* JSON.stringify of an object drops the keys whose value is undefined
Stringify(o) == [k \in {k \in DOMAIN o : o[k] # UNDEF} |-> o[k]]

\* String.prototype.trim
Trim(v) == IF v \in {" ", "  "} THEN "" ELSE IF v = " 40160 " THEN "40160" ELSE v

Truthy(v) == v \notin {UNDEF, NULL, "", "n0"}

JsType(v) ==
    IF v = UNDEF THEN "undefined"
    ELSE IF v = NULL THEN "null"
    ELSE IF v \in NumVals THEN "number"
    ELSE "string"

\* `${v}` in a template literal
Str(v) == IF v = UNDEF THEN "undefined" ELSE IF v = NULL THEN "null" ELSE v

\* o.k : a missing key reads as undefined
Get(o, k) == IF k \in DOMAIN o THEN o[k] ELSE UNDEF

\* a || b
Or(a, b) == IF Truthy(a) THEN a ELSE b

\* a || undefined
OrUndef(a) == Or(a, UNDEF)

----------------------------------------------------------------------------
(* HTTP: requests, responses *)

IsOk(r) == r.kind = "http" /\ r.status \in 200..299

\* fetch() rejected: connection refused, reset, timeout
Thrown == [kind |-> "throw", status |-> 0, decodable |-> FALSE,
           body |-> [message |-> "ECONNREFUSED"]]

Http(status, decodable, body) ==
    [kind |-> "http", status |-> status, decodable |-> decodable, body |-> body]

\* data.docs || []
DocsOf(r) == IF "docs" \in DOMAIN r.body THEN r.body.docs ELSE <<>>

\* what the backend may answer to a performFind whose 200 answers carry a
\* row sequence of `docSeqs`
FindResponses(docSeqs) ==
    {Thrown,
     Http(500, FALSE, [text |-> "<html>Internal Server Error</html>"]),
     Http(500, TRUE, [errorMessage |-> "Internal Server Error"]),
     Http(200, FALSE, [text |-> "<html>login</html>"]),
     Http(200, TRUE, [responseMessage |-> "success"])}
    \cup {Http(200, TRUE, [docs |-> d]) : d \in docSeqs}

\* what the backend may answer to a GET of a download endpoint
DownloadResponses ==
    {Thrown,
     Http(500, FALSE, [text |-> "<html>Internal Server Error</html>"]),
     Http(200, FALSE, [text |-> ""]),
     Http(200, FALSE, [text |-> "id,qty"])}

SeqsUpTo(S, n) == UNION {[1..k -> S] : k \in 0..n}

----------------------------------------------------------------------------
(* Authorization of the outbound calls *)

\* the precedence the wrong way round: the static token first
InlineAuthorization_StaticFirst(downstreamToken, cfg) ==
    IF Truthy(cfg.BACKEND_ACCESS_TOKEN) THEN "Bearer " \o cfg.BACKEND_ACCESS_TOKEN
    ELSE IF Truthy(downstreamToken) THEN "Bearer " \o downstreamToken
    ELSE ""

\* Authorization: downstreamToken ? `Bearer ${downstreamToken}`
\*              : (BACKEND_ACCESS_TOKEN ? `Bearer ${BACKEND_ACCESS_TOKEN}` : '')
InlineAuthorization(downstreamToken, cfg) ==
    IF Truthy(downstreamToken) THEN "Bearer " \o downstreamToken
    ELSE IF Truthy(cfg.BACKEND_ACCESS_TOKEN)
         THEN "Bearer " \o cfg.BACKEND_ACCESS_TOKEN
         ELSE ""

\* the headers object literal that always carries the Authorization key
InlineHeaders(downstreamToken, cfg) ==
    [UserAgent |-> cfg.BACKEND_USER_AGENT,
     Authorization |-> InlineAuthorization(downstreamToken, cfg)]

\* requestOptions.headers['Authorization'] set only inside the if / else if
ConditionalHeaders(downstreamToken, cfg) ==
    IF Truthy(downstreamToken)
    THEN [UserAgent |-> cfg.BACKEND_USER_AGENT,
          Authorization |-> "Bearer " \o downstreamToken]
    ELSE IF Truthy(cfg.BACKEND_ACCESS_TOKEN)
         THEN [UserAgent |-> cfg.BACKEND_USER_AGENT,
               Authorization |-> "Bearer " \o cfg.BACKEND_ACCESS_TOKEN]
         ELSE [UserAgent |-> cfg.BACKEND_USER_AGENT]

\* const token = downstreamToken || BACKEND_ACCESS_TOKEN;
\* 'Authorization': `Bearer ${token}`
DownloadCsvHeaders(downstreamToken, cfg) ==
    [UserAgent |-> cfg.BACKEND_USER_AGENT,
     Authorization |-> "Bearer " \o Str(Or(downstreamToken, cfg.BACKEND_ACCESS_TOKEN))]

\* const authToken = downstreamToken || BACKEND_ACCESS_TOKEN;
\* if (authToken) headers['Authorization'] = `Bearer ${authToken}`
UploadHeaders(downstreamToken, cfg) ==
    IF Truthy(Or(downstreamToken, cfg.BACKEND_ACCESS_TOKEN))
    THEN [UserAgent |-> cfg.BACKEND_USER_AGENT,
          Authorization |-> "Bearer " \o Or(downstreamToken, cfg.BACKEND_ACCESS_TOKEN)]
    ELSE [UserAgent |-> cfg.BACKEND_USER_AGENT]

\* a POST {base}/api/performFind
FindRequest(entityName, inputFields, viewSize, orderBy, headers) ==
    [endpoint |-> "performFind", entityName |-> entityName,
     inputFields |-> Stringify(inputFields), viewSize |-> viewSize, orderBy |-> orderBy,
     headers |-> headers]

\* a GET of a download endpoint, one query parameter
GetRequest(endpoint, param, value, headers) ==
    [endpoint |-> endpoint, entityName |-> UNDEF,
     inputFields |-> (param :> value), viewSize |-> UNDEF, orderBy |-> UNDEF,
     headers |-> headers]

----------------------------------------------------------------------------
(* Tool results *)

Text(parts) == [type |-> "text", text |-> parts]

SuccessResult(content, structuredContent) ==
    [content |-> content, structuredContent |-> structuredContent]

ErrorResult(content) == [content |-> content, isError |-> TRUE]

\* error instanceof Error ? error.message : ...
\* the message of what a failed await threw
FetchFailure(r) ==
    IF r.kind = "throw" THEN <<r.body.message>>
    ELSE <<"invalid json response body">>

----------------------------------------------------------------------------
(* The state of one invocation *)

NoRecord == [none |-> "none"]

Idle ==
    [tool |-> "none", args |-> NoRecord, downstreamToken |-> UNDEF,
     pc |-> "idle", calls |-> <<>>, resps |-> <<>>, result |-> [pending |-> "pending"],
     contentRecord |-> NoRecord, dataResourceId |-> UNDEF,
     dataResourceTypeId |-> UNDEF, textData |-> "",
     savedPath |-> UNDEF, fsOps |-> <<>>,
     config |-> NoRecord, linkDocs |-> <<>>, idx |-> 0, tasks |-> <<>>]

Return(s, res) == [s EXCEPT !.pc = "done", !.result = res]

Fetch(s, req, label) == [s EXCEPT !.pc = label, !.calls = Append(@, req)]

Received(s, r) == [s EXCEPT !.resps = Append(@, r)]

----------------------------------------------------------------------------
(* The backend's rows, as far as the handlers read them *)

ContentRows ==
    {[contentId |-> "C1", dataResourceId |-> d, mimeTypeId |-> m,
      contentName |-> "err.csv"] : d \in {"D1", NULL},
                                 m \in {"text/csv", "application/json", NULL}}

DataResourceRows ==
    {[dataResourceId |-> "D1", dataResourceTypeId |-> t, objectInfo |-> "/data/err.csv"] :
        t \in {"ELECTRONIC_TEXT", "SHORT_TEXT", "OFBIZ_FILE", "LOCAL_FILE", "IMAGE_OBJECT"}}

ElectronicTextRows ==
    {[dataResourceId |-> "D1", textData |-> t] : t \in {"hello", ""}}

----------------------------------------------------------------------------
(* getContent: src/src/tools/getContent.ts (the ViewBinaryDataResource    *)
(* variant), src/unnamed/part_002 (the DownloadCsvFile variant) and       *)
(* src/unnamed/part_003 (the DownloadCsvFile variant that persists)       *)

GetContentTools == {"getContent", "getContent_part_002", "getContent_part_003"}

TextTypes == {"ELECTRONIC_TEXT", "SHORT_TEXT"}
FileTypes == {"OFBIZ_FILE", "LOCAL_FILE"}

getRequestOptions(s, entityName, inputFields) ==
    FindRequest(entityName, inputFields, "n1", UNDEF,
                InlineHeaders(s.downstreamToken, serverConfig))

\* a catch block that forgets the error flag
GetContentCatch_NoFlag(s, message) ==
    Return(s, [content |-> <<Text(<<"Error: ">> \o message)>>])

\* } catch (error) { ... text: `Error: ${error.message}` ... isError: true }
GetContentCatch(s, message) ==
    Return(s, ErrorResult(<<Text(<<"Error: ">> \o message)>>))

\* the empty row set is not checked: the handler goes on to the DataResource query
ContentNotFound_FallThrough(s) ==
    Fetch(s, getRequestOptions(s, "DataResource", [dataResourceId |-> UNDEF]),
          "dataResource")

\* if (!contentData.docs || contentData.docs.length === 0) { return ... }
ContentNotFound(s) ==
    Return(s, ErrorResult(<<Text(<<"Content not found: ", s.args.contentId>>)>>))

\* the handler up to its first await: the Content query
GetContentStart(s) ==
    Fetch(s, getRequestOptions(s, "Content", [contentId |-> s.args.contentId]), "content")

\* 1. Fetch Content to get dataResourceId; then issue the DataResource query
GetContentOnContent(s, r) ==
    IF r.kind = "throw" THEN GetContentCatch(s, FetchFailure(r))
    ELSE IF ~IsOk(r)
    THEN GetContentCatch(s, <<"Failed to fetch Content: ", ToString(r.status)>>)
    ELSE IF ~r.decodable THEN GetContentCatch(s, FetchFailure(r))
    ELSE IF Len(DocsOf(r)) = 0 THEN ContentNotFound(s)
    ELSE LET contentRecord == DocsOf(r)[1]
             dataResourceId == Get(contentRecord, "dataResourceId")
         IN  IF ~Truthy(dataResourceId)
             THEN Return(s, ErrorResult(
                     <<Text(<<"No dataResourceId for Content: ", s.args.contentId>>)>>))
             ELSE Fetch([s EXCEPT !.contentRecord = contentRecord,
                                  !.dataResourceId = dataResourceId],
                        getRequestOptions(s, "DataResource",
                                          [dataResourceId |-> dataResourceId]),
                        "dataResource")

\* contentRecord.mimeTypeId || undefined
MimeType(s) == OrUndef(Get(s.contentRecord, "mimeTypeId"))

\* the remote-file branch of getContent.ts: metadata only, no download
RemoteFileResult(s, dr) ==
    LET objectInfo == Or(Get(dr, "objectInfo"), "Unknown Path")
    IN  SuccessResult(
            <<Text(<<"[REMOTE FILE LOG] ID: ", s.args.contentId,
                     " Type: ", Get(dr, "dataResourceTypeId"),
                     " Remote Path: ", objectInfo>>)>>,
            [contentId |-> s.args.contentId,
             dataResourceId |-> s.dataResourceId,
             textData |-> "[Remote File: " \o objectInfo \o "]",
             mimeType |-> MimeType(s)])

\* the ViewBinaryDataResource request of getContent.ts
ViewBinaryRequest(s) ==
    GetRequest("ViewBinaryDataResource", "dataResourceId", s.dataResourceId,
               InlineHeaders(s.downstreamToken, serverConfig))

\* the DownloadCsvFile request of part_002 and part_003
DownloadCsvRequest(s) ==
    GetRequest("DownloadCsvFile", "contentId", s.args.contentId,
               DownloadCsvHeaders(s.downstreamToken, serverConfig))

\* if (!textData) { return { ... isError: true } }
NoTextResult(s) ==
    IF s.tool = "getContent"
    THEN ErrorResult(<<Text(<<"No ElectronicText or File found for dataResourceId: ",
                              s.dataResourceId, " (Remote fetch attempted)">>)>>)
    ELSE ErrorResult(<<Text(<<"No text content found for contentId: ",
                              s.args.contentId, " (Type: ",
                              Str(s.dataResourceTypeId), ")">>)>>)

\* the result object: { contentId, dataResourceId, textData, mimeType[, savedPath] }
GetContentStructured(s, textData, savedPath) ==
    IF s.tool = "getContent_part_003"
    THEN [contentId |-> s.args.contentId,
          dataResourceId |-> OrUndef(s.dataResourceId),
          textData |-> OrUndef(textData),
          mimeType |-> MimeType(s),
          savedPath |-> savedPath]
    ELSE [contentId |-> s.args.contentId,
          dataResourceId |-> OrUndef(s.dataResourceId),
          textData |-> OrUndef(textData),
          mimeType |-> MimeType(s)]

\* the MIME type is ignored
Extension_TxtOnly(mimeType) == ".txt"

\* Determine extension
Extension(mimeType) ==
    IF mimeType \in {"text/csv", "application/csv"} THEN ".csv"
    ELSE IF mimeType = "application/json" THEN ".json"
    ELSE IF mimeType \in {"text/xml", "application/xml"} THEN ".xml"
    ELSE IF mimeType = "application/pdf" THEN ".pdf"
    ELSE ".txt"

\* path.dirname(import.meta.url): where the built handler lives
HandlerDir == <<"app", "build", "tools">>

\* path.parse(currentDir).root
Root == <<>>

\* findRuntimeDir returns null
NoDir == <<>>

\* path.dirname
Dirname(dir) == SubSeq(dir, 1, Len(dir) - 1)

\* fs.existsSync(candidate) && fs.statSync(candidate).isDirectory()
IsRuntimeDirectory(candidate) == candidate \in runtimeDirs

RECURSIVE findRuntimeDir(_)
findRuntimeDir(currentDir) ==
    IF currentDir # Root
    THEN IF IsRuntimeDirectory(Append(currentDir, "runtime"))
         THEN Append(currentDir, "runtime")
         ELSE findRuntimeDir(Dirname(currentDir))
    ELSE IF IsRuntimeDirectory(Append(Root, "runtime"))
         THEN Append(Root, "runtime")
         ELSE NoDir

RECURSIVE PathStr(_)
PathStr(dir) ==
    IF dir = <<>> THEN "" ELSE PathStr(Dirname(dir)) \o "/" \o dir[Len(dir)]

\* path.join(runtimeDir, `${category}File_${args.configId}`)
TargetDir(s, runtimeDir) ==
    Append(runtimeDir, Or(Get(s.args, "category"), "uploaded") \o "File_" \o s.args.configId)

\* a file that exists is not overwritten: the name gets a suffix
SavedPath_Unique(s, targetDir) ==
    LET base == PathStr(targetDir) \o "/" \o s.args.contentId
        ext == Extension(Get(s.contentRecord, "mimeTypeId"))
    IN  IF \E f \in files : f.path = base \o ext THEN base \o "-1" \o ext
        ELSE base \o ext

\* path.join(targetDir, `${args.contentId}${ext}`)
SavedPath(s, targetDir) ==
    PathStr(targetDir) \o "/" \o s.args.contentId
        \o Extension(Get(s.contentRecord, "mimeTypeId"))

\* the last return of part_003
SavedResult(s, savedPath) ==
    SuccessResult(
        <<Text(<<"Content Retrieved.">>
               \o (IF Truthy(savedPath) THEN <<"Saved to: ", savedPath>> ELSE <<>>)
               \o <<"Preview:", s.textData>>)>>,
        GetContentStructured(s, s.textData, savedPath))

\* without an anchor the runtime directory is created next to the handler
Persist_CreateAnchor(s) ==
    IF ~Truthy(Get(s.args, "configId")) THEN Return(s, SavedResult(s, UNDEF))
    ELSE LET found == findRuntimeDir(HandlerDir)
             runtimeDir == IF found = NoDir THEN Append(HandlerDir, "runtime") ELSE found
             targetDir == TargetDir(s, runtimeDir)
         IN  IF targetDir \notin targetDirs
             THEN [s EXCEPT !.pc = "mkdir",
                            !.fsOps = Append(@, [op |-> "mkdir", path |-> PathStr(targetDir)])]
             ELSE [s EXCEPT !.pc = "writeFile",
                            !.savedPath = SavedPath(s, targetDir),
                            !.fsOps = Append(@, [op |-> "writeFile",
                                                 path |-> SavedPath(s, targetDir)])]

\* --- Persistence Logic --- up to its first await on the file system
Persist(s) ==
    IF ~Truthy(Get(s.args, "configId")) THEN Return(s, SavedResult(s, UNDEF))
    ELSE LET runtimeDir == findRuntimeDir(HandlerDir)
             targetDir == TargetDir(s, runtimeDir)
         IN  IF runtimeDir = NoDir THEN Return(s, SavedResult(s, UNDEF))
             ELSE IF targetDir \notin targetDirs
             THEN [s EXCEPT !.pc = "mkdir",
                            !.fsOps = Append(@, [op |-> "mkdir", path |-> PathStr(targetDir)])]
             ELSE [s EXCEPT !.pc = "writeFile",
                            !.savedPath = SavedPath(s, targetDir),
                            !.fsOps = Append(@, [op |-> "writeFile",
                                                 path |-> SavedPath(s, targetDir)])]

\* the empty text is not tested: a result is returned whatever the text
GetContentFinish_NoTextTest(s, structuredText) ==
    IF s.tool = "getContent_part_003" THEN Persist(s)
    ELSE Return(s, SuccessResult(<<Text(<<s.textData>>)>>,
                                 GetContentStructured(s, structuredText, UNDEF)))

\* after the typed fetch and the download: fail, or return the text
GetContentFinish(s, structuredText) ==
    IF ~Truthy(s.textData) THEN Return(s, NoTextResult(s))
    ELSE IF s.tool = "getContent_part_003" THEN Persist(s)
    ELSE Return(s, SuccessResult(<<Text(<<s.textData>>)>>,
                                 GetContentStructured(s, structuredText, UNDEF)))

\* no fallback: the handler fails or returns on the typed text alone
GetContentAfterTyped_NoFallback(s) == GetContentFinish(s, s.textData)

\* after the typed fetch: getContent.ts always downloads; part_002 and
\* part_003 download only `if (!textData)`
GetContentAfterTyped(s) ==
    IF s.tool = "getContent" THEN Fetch(s, ViewBinaryRequest(s), "download")
    ELSE IF ~Truthy(s.textData) THEN Fetch(s, DownloadCsvRequest(s), "download")
    ELSE GetContentFinish(s, s.textData)

\* the missing row is not tested: the handler goes on to the download
DataResourceNotFound_FallThrough(s) == GetContentAfterTyped(s)

\* if (!dr) { return { ... `DataResource not found for ID: ${dataResourceId}` ... } }
DataResourceNotFound(s) ==
    Return(s, ErrorResult(<<Text(<<"DataResource not found for ID: ", s.dataResourceId>>)>>))

\* 2. Fetch DataResource to determine type; 3. Handle based on Type
GetContentOnDataResource(s, r) ==
    IF r.kind = "throw" THEN GetContentCatch(s, FetchFailure(r))
    ELSE IF ~IsOk(r)
    THEN GetContentCatch(s, <<"Failed to fetch DataResource: ", ToString(r.status)>>)
    ELSE IF ~r.decodable THEN GetContentCatch(s, FetchFailure(r))
    ELSE IF Len(DocsOf(r)) = 0 THEN DataResourceNotFound(s)
    ELSE LET dr == DocsOf(r)[1]
             dataResourceTypeId == Get(dr, "dataResourceTypeId")
             s1 == [s EXCEPT !.dataResourceTypeId = dataResourceTypeId]
         IN  IF dataResourceTypeId \in TextTypes
             THEN Fetch(s1, getRequestOptions(s, "ElectronicText",
                                              [dataResourceId |-> s.dataResourceId]),
                        "text")
             ELSE IF s.tool = "getContent" /\ dataResourceTypeId \in FileTypes
             THEN Return(s1, RemoteFileResult(s1, dr))
             ELSE GetContentAfterTyped(s1)

\* the ElectronicText answer: if (textResponse.ok) { ... textData = docs[0].textData }
GetContentOnText(s, r) ==
    IF r.kind = "throw" THEN GetContentCatch(s, FetchFailure(r))
    ELSE IF ~IsOk(r) THEN GetContentAfterTyped(s)
    ELSE IF ~r.decodable THEN GetContentCatch(s, FetchFailure(r))
    ELSE IF Len(DocsOf(r)) > 0
    THEN GetContentAfterTyped([s EXCEPT !.textData = Get(DocsOf(r)[1], "textData")])
    ELSE GetContentAfterTyped(s)

\* the download answer, inside its own try / catch
GetContentOnDownload(s, r) ==
    IF IsOk(r)
    THEN GetContentFinish([s EXCEPT !.textData = r.body.text], r.body.text)
    ELSE GetContentFinish(s, s.textData)

\* await fs.promises.mkdir(targetDir, { recursive: true }) settled
GetContentOnMkdir(s, ok) ==
    IF ~ok THEN GetContentCatch(s, <<"EACCES: permission denied, mkdir">>)
    ELSE LET targetDir == TargetDir(s, findRuntimeDir(HandlerDir))
         IN  [s EXCEPT !.pc = "writeFile",
                       !.savedPath = SavedPath(s, targetDir),
                       !.fsOps = Append(@, [op |-> "writeFile",
                                            path |-> SavedPath(s, targetDir)])]

\* await fs.promises.writeFile(savedPath, textData, 'utf8') settled
GetContentOnWriteFile(s, ok) ==
    IF ~ok THEN GetContentCatch(s, <<"EACCES: permission denied, open">>)
    ELSE Return(s, SavedResult(s, s.savedPath))

----------------------------------------------------------------------------
(* The single-query tools *)

\* throw new Error(`HTTP error! status: ${response.status}`)
HttpError(r) == <<"HTTP error! status: ", ToString(r.status)>>

\* what the try block throws on a failed query, when it checks response.ok
QueryFailure(r) == IF r.kind = "http" /\ ~IsOk(r) THEN HttpError(r) ELSE FetchFailure(r)

\* the query failed: fetch rejected, the status is not ok, the body is no JSON
QueryFailed(r) == r.kind = "throw" \/ ~IsOk(r) \/ ~r.decodable

\* } catch (error) { ... text: `Error: ${error.message}` ... isError: true }
PlainCatch(s, message) == Return(s, ErrorResult(<<Text(<<"Error: ">> \o message)>>))

\* } catch (error) { ... `DEBUG: URL: ... HEADERS: ... BODY: ...`, `<prefix>${message}` }
DebugCatch(s, prefix, message) ==
    LET req == s.calls[Len(s.calls)]
    IN  Return(s, ErrorResult(
            <<Text(<<"DEBUG: URL: ", "/api/performFind", " HEADERS: ",
                     Str(Get(req.headers, "Authorization")), " BODY: ", req.entityName>>),
              Text(<<prefix>> \o message)>>))

\* { f: row.f, ... } : the same-named fields, copied as they are
Copy(row, fields) == [f \in fields |-> Get(row, f)]

\* { f: row.f || undefined, ... }
CopyOrUndef(row, fields) == [f \in fields |-> OrUndef(Get(row, f))]

(* getLogById: src/src/tools/getLogById.ts *)

DataManagerLogRows ==
    {[logId |-> "40160", configId |-> "CFG1", statusId |-> st,
      errorRecordContentId |-> e, jobId |-> "J1", createdDate |-> "n1700000000000",
      lastUpdatedStamp |-> "n1700000000000"] :
        <<st, e>> \in {<<"SERVICE_FAILED", NULL>>, <<"SERVICE_FINISHED", "C1">>,
                       <<"SERVICE_FINISHED", NULL>>, <<"SERVICE_FINISHED", " ">>}}

DataManagerLogFields ==
    {"logId", "configId", "ownerPartyId", "uploadFileContentId", "exportFileContentId",
     "logTypeEnumId", "createdByUserLogin", "createdDate", "startDateTime",
     "finishDateTime", "cancelDateTime", "jobId", "statusId", "errorRecordContentId",
     "logFileContentId", "runtimeDataId", "createdByJobId", "productStoreId"}

GetLogByIdStart(s) ==
    Fetch(s, FindRequest("DataManagerLog", [logId |-> s.args.logId], "n1", UNDEF,
                         ConditionalHeaders(s.downstreamToken, serverConfig)),
          "getLogById")

\* every field is copied as `log.f || undefined`: a null becomes absent
GetLogByIdOnResponse_DropNull(s, r) ==
    IF QueryFailed(r) THEN DebugCatch(s, "Error fetching DataManagerLog: ", QueryFailure(r))
    ELSE IF Len(DocsOf(r)) = 0
    THEN Return(s, ErrorResult(
            <<Text(<<"No DataManagerLog found with ID: ", s.args.logId>>)>>))
    ELSE LET structuredContent == CopyOrUndef(DocsOf(r)[1], DataManagerLogFields)
         IN  Return(s, SuccessResult(<<Text(<<"JSON", structuredContent.logId>>)>>,
                                     structuredContent))

GetLogByIdOnResponse(s, r) ==
    IF QueryFailed(r) THEN DebugCatch(s, "Error fetching DataManagerLog: ", QueryFailure(r))
    ELSE IF Len(DocsOf(r)) = 0
    THEN Return(s, ErrorResult(
            <<Text(<<"No DataManagerLog found with ID: ", s.args.logId>>)>>))
    ELSE LET structuredContent == Copy(DocsOf(r)[1], DataManagerLogFields)
         IN  Return(s, SuccessResult(<<Text(<<"JSON", structuredContent.logId>>)>>,
                                     structuredContent))

(* retryFailedRecord: src/unnamed/part_001 *)

RetryFailedRecordStart(s) ==
    Fetch(s, FindRequest("DataManagerLog", [logId |-> Trim(s.args.logId)], "n1", UNDEF,
                         ConditionalHeaders(s.downstreamToken, serverConfig)),
          "retryFailedRecord")

\* the record is resubmitted to the import service and reported as retried
RetryFailedRecordOnResponse_Resubmit(s, r) ==
    IF QueryFailed(r) THEN DebugCatch(s, "Error checking retry: ", QueryFailure(r))
    ELSE IF Len(DocsOf(r)) = 0
    THEN Return(s, ErrorResult(<<Text(<<"Log ", s.args.logId, " not found.">>)>>))
    ELSE Return(Fetch(s, GetRequest("retryImport", "logId", s.args.logId,
                                    ConditionalHeaders(s.downstreamToken, serverConfig)),
                      "retryFailedRecord"),
                SuccessResult(<<Text(<<"Retried">>)>>,
                              [message |-> <<"Retried">>, canRetry |-> TRUE]))

RetryFailedRecordOnResponse(s, r) ==
    IF QueryFailed(r) THEN DebugCatch(s, "Error checking retry: ", QueryFailure(r))
    ELSE IF Len(DocsOf(r)) = 0
    THEN Return(s, ErrorResult(<<Text(<<"Log ", s.args.logId, " not found.">>)>>))
    ELSE LET log == DocsOf(r)[1]
             message == <<"Retry Context for Log ", s.args.logId,
                          "- Config ID: ", Str(Get(log, "configId")),
                          "- Status: ", Str(Get(log, "statusId")),
                          "Automatic retry via MCP is not yet fully implemented.">>
         IN  Return(s, SuccessResult(<<Text(message)>>,
                                     [message |-> message, canRetry |-> FALSE]))

(* findDataManagerLogs: src/unnamed/part_004 *)

FindDataManagerLogsStart(s) ==
    Fetch(s, FindRequest("DataManagerLog",
                         [logId |-> Get(s.args, "logId"), configId |-> Get(s.args, "configId"),
                          statusId |-> Get(s.args, "statusId"), jobId |-> Get(s.args, "jobId")],
                         "n20", "-createdDate",
                         ConditionalHeaders(s.downstreamToken, serverConfig)),
          "findDataManagerLogs")

FindDataManagerLogsProject(log) ==
    [logId |-> Get(log, "logId"),
     configId |-> OrUndef(Get(log, "configId")),
     statusId |-> OrUndef(Get(log, "statusId")),
     jobId |-> OrUndef(Get(log, "jobId")),
     createdDate |-> OrUndef(Get(log, "createdDate")),
     reason |-> OrUndef(Get(log, "statusId"))]

FindDataManagerLogsOnResponse(s, r) ==
    IF QueryFailed(r) THEN DebugCatch(s, "Error finding DataManager logs: ", QueryFailure(r))
    ELSE LET logs == [k \in DOMAIN DocsOf(r) |-> FindDataManagerLogsProject(DocsOf(r)[k])]
         IN  Return(s, SuccessResult(<<Text(<<"JSON">>)>>, [logs |-> logs]))

(* listRecentErrors: src/src/tools/findOrderTasks.ts, its third module *)

ListRecentErrorsStart(s) ==
    Fetch(s, FindRequest("DataManagerLog",
                         IF Truthy(Get(s.args, "configId"))
                         THEN [configId |-> s.args.configId] ELSE EmptyObject,
                         Or(Get(s.args, "limit"), "n20"), "-createdDate",
                         ConditionalHeaders(s.downstreamToken, serverConfig)),
          "listRecentErrors")

\* only the status is tested, the error record is ignored
IsFailedLog_StatusOnly(log) ==
    Get(log, "statusId") \in {"SERVICE_FAILED", "SERVICE_CRASHED", "DM_LOG_ERROR"}

\* Filter for logs that are either explicitly failed OR have an error record
IsFailedLog(log) ==
    \/ Get(log, "statusId") \in {"SERVICE_FAILED", "SERVICE_CRASHED", "DM_LOG_ERROR"}
    \/ (Truthy(Get(log, "errorRecordContentId"))
        /\ Trim(Get(log, "errorRecordContentId")) # "")

ListRecentErrorsProject(log) ==
    [f \in DataManagerLogFields \cup {"reason"} |->
        IF f = "logId" THEN Get(log, "logId")
        ELSE IF f = "reason" THEN OrUndef(Get(log, "statusId"))
        ELSE OrUndef(Get(log, f))]

ListRecentErrorsOnResponse(s, r) ==
    IF QueryFailed(r) THEN DebugCatch(s, "Error finding recent errors: ", QueryFailure(r))
    ELSE LET logs == [k \in DOMAIN SelectSeq(DocsOf(r), IsFailedLog) |->
                         ListRecentErrorsProject(SelectSeq(DocsOf(r), IsFailedLog)[k])]
         IN  Return(s, SuccessResult(<<Text(<<"JSON">>)>>, [logs |-> logs]))

(* findPickProfileGroups: src/src/tools/findPickProfileGroup.ts *)

PickProfileGroupRows ==
    {[pickProfileGroupId |-> "G1", groupName |-> g, description |-> "Main group",
      lastUpdatedStamp |-> "n1700000000000"] : g \in {"Main", NULL}}

FindPickProfileGroupsStart(s) ==
    Fetch(s, FindRequest("PickProfileGroup",
                         [pickProfileGroupId |-> Get(s.args, "pickProfileGroupId"),
                          groupName |-> Get(s.args, "groupName"),
                          description |-> Get(s.args, "description")],
                         "n20", UNDEF,
                         ConditionalHeaders(s.downstreamToken, serverConfig)),
          "findPickProfileGroups")

FindPickProfileGroupsOnResponse(s, r) ==
    IF QueryFailed(r)
    THEN DebugCatch(s, "Error finding pick profile groups: ", QueryFailure(r))
    ELSE Return(s, SuccessResult(<<Text(<<"JSON">>)>>, [pickProfileGroups |-> DocsOf(r)]))

(* getLogConfig: src/unnamed/part_000, its second module *)

DataManagerConfigRows ==
    {[configId |-> c, description |-> d, runtimeDataId |-> rt, priority |-> "n5"] :
        c \in {"CFG1"}, d \in {"Import orders", NULL}, rt \in {"RT1", NULL}}

DataManagerConfigFields ==
    {"configId", "exportContentId", "importServiceName", "exportServiceName",
     "exportServiceScreenName", "exportServiceScreenLocation", "description",
     "scriptTitle", "delimiter", "fileNamePattern", "executionModeId",
     "multiThreading", "importPath", "exportPath", "priority"}

GetLogConfigStart(s) ==
    Fetch(s, FindRequest("DataManagerConfig", [configId |-> s.args.configId], "n1", UNDEF,
                         ConditionalHeaders(s.downstreamToken, serverConfig)),
          "getLogConfig")

GetLogConfigOnResponse(s, r) ==
    IF QueryFailed(r) THEN DebugCatch(s, "Error fetching config: ", QueryFailure(r))
    ELSE IF Len(DocsOf(r)) = 0
    THEN Return(s, ErrorResult(<<Text(<<"Config ", s.args.configId, " not found.">>)>>))
    ELSE Return(s, SuccessResult(<<Text(<<"JSON">>)>>,
                                 Copy(DocsOf(r)[1], DataManagerConfigFields)))

(* findOrderItems: src/src/tools/findOrderItems.ts, its first module *)

OrderItemRows ==
    {[orderId |-> "1001", orderItemSeqId |-> "00001", productId |-> p,
      itemDescription |-> NULL, quantity |-> "n5", unitPrice |-> "n10",
      statusId |-> "ITEM_APPROVED"] : p \in {"P1", NULL}}

OrderItemFields ==
    {"orderId", "orderItemSeqId", "productId", "itemDescription", "quantity",
     "unitPrice", "statusId"}

FindOrderItemsStart(s) ==
    IF ~Truthy(s.args.orderId)
    THEN Return(s, ErrorResult(<<Text(<<"Error: orderId is required">>)>>))
    ELSE Fetch(s, FindRequest("OrderItem", [orderId |-> s.args.orderId], "n100",
                              "orderItemSeqId",
                              InlineHeaders(s.downstreamToken, serverConfig)),
               "findOrderItems")

FindOrderItemsProject(item) == Copy(item, OrderItemFields)

\* an answer without rows is reported as "not found"
FindOrderItemsOnResponse_EmptyIsError(s, r) ==
    IF QueryFailed(r) THEN PlainCatch(s, QueryFailure(r))
    ELSE IF Len(DocsOf(r)) = 0
    THEN Return(s, ErrorResult(<<Text(<<"No order items found.">>)>>))
    ELSE LET items == [k \in DOMAIN DocsOf(r) |-> Copy(DocsOf(r)[k], OrderItemFields)]
         IN  Return(s, SuccessResult(<<Text(<<"JSON">>)>>, [items |-> items]))

FindOrderItemsOnResponse(s, r) ==
    IF QueryFailed(r) THEN PlainCatch(s, QueryFailure(r))
    ELSE LET items == [k \in DOMAIN DocsOf(r) |-> FindOrderItemsProject(DocsOf(r)[k])]
         IN  Return(s, SuccessResult(<<Text(<<"JSON">>)>>, [items |-> items]))

(* findOrderHeader: src/src/tools/findOrderItems.ts, its second module *)

OrderHeaderRows ==
    {[orderId |-> "1001", statusId |-> "ORDER_APPROVED", externalId |-> e,
      entryDate |-> "n1700000000000", productStoreId |-> "STORE",
      grandTotal |-> "n100"] : e \in {"EXT1", NULL}}

OrderHeaderFields ==
    {"orderId", "statusId", "externalId", "entryDate", "productStoreId", "grandTotal"}

\* if (args.orderId) inputFields.orderId = ...; if (args.externalId) ...
FindOrderHeaderInputFields(args) ==
    Stringify([orderId |-> OrUndef(Get(args, "orderId")),
               externalId |-> OrUndef(Get(args, "externalId"))])

FindOrderHeaderStart(s) ==
    IF DOMAIN FindOrderHeaderInputFields(s.args) = {}
    THEN Return(s, ErrorResult(
            <<Text(<<"Please provide either orderId or externalId">>)>>))
    ELSE Fetch(s, FindRequest("OrderHeader", FindOrderHeaderInputFields(s.args), "n1",
                              UNDEF, InlineHeaders(s.downstreamToken, serverConfig)),
               "findOrderHeader")

FindOrderHeaderOnResponse(s, r) ==
    IF QueryFailed(r) THEN PlainCatch(s, QueryFailure(r))
    ELSE IF Len(DocsOf(r)) = 0
    THEN Return(s, ErrorResult(<<Text(<<"Order not found.">>)>>))
    ELSE Return(s, SuccessResult(<<Text(<<"JSON">>)>>,
                                 Copy(DocsOf(r)[1], OrderHeaderFields)))

(* findOrderTasks: src/src/tools/findOrderTasks.ts, its first module (one *)
(* WorkEffort query) and its second module (OrderHeaderWorkEffort links,  *)
(* then one WorkEffort query per link)                                    *)

WorkEffortIds == {"W1", "W2", "W3"}

WorkEffortRows ==
    {[workEffortId |-> w, workEffortName |-> "Resolve hold",
      workEffortTypeId |-> IF w = "W1" THEN "RESOLVE_ONHOLD_ORDER" ELSE "TASK",
      currentStatusId |-> "CAL_NEEDS_ACTION", description |-> NULL,
      createdDate |-> "n1700000000000"] : w \in WorkEffortIds}

OrderHeaderWorkEffortRows ==
    {[orderId |-> "1001", workEffortId |-> w] : w \in WorkEffortIds}

WorkEffortFields ==
    {"workEffortId", "workEffortName", "workEffortTypeId", "currentStatusId",
     "description", "createdDate"}

FindOrderTasksStart(s) ==
    Fetch(s, FindRequest("WorkEffort",
                         [sourceReferenceId |-> s.args.orderId,
                          workEffortTypeId |->
                              Or(Get(s.args, "workEffortTypeId"), "RESOLVE_ONHOLD_ORDER")],
                         "n20", "-createdDate",
                         InlineHeaders(s.downstreamToken, serverConfig)),
          "findOrderTasks")

FindOrderTasksProject(task) == Copy(task, WorkEffortFields)

FindOrderTasksOnResponse(s, r) ==
    IF QueryFailed(r) THEN PlainCatch(s, QueryFailure(r))
    ELSE LET tasks == [k \in DOMAIN DocsOf(r) |-> FindOrderTasksProject(DocsOf(r)[k])]
         IN  Return(s, SuccessResult(<<Text(<<"JSON">>)>>, [tasks |-> tasks]))

\* Step 1: Link Order to WorkEffort via OrderHeaderWorkEffort
FindOrderTasksLinkStart(s) ==
    Fetch(s, FindRequest("OrderHeaderWorkEffort", [orderId |-> s.args.orderId], "n100",
                         UNDEF, InlineHeaders(s.downstreamToken, serverConfig)),
          "links")

\* the WorkEffort query of one link: { entityName, inputFields: { workEffortId } }
TaskRequest(s, link) ==
    FindRequest("WorkEffort", [workEffortId |-> Get(link, "workEffortId")], UNDEF, UNDEF,
                InlineHeaders(s.downstreamToken, serverConfig))

\* the detail queries of all links are sent at once, none awaited
FindOrderTasksOnLinks_AllAtOnce(s, r) ==
    IF QueryFailed(r) THEN PlainCatch(s, QueryFailure(r))
    ELSE IF Len(DocsOf(r)) = 0
    THEN Return(s, SuccessResult(<<Text(<<"JSON">>)>>, [tasks |-> <<>>]))
    ELSE [s EXCEPT !.linkDocs = DocsOf(r), !.idx = Len(DocsOf(r)), !.pc = "task",
                   !.calls = @ \o [k \in DOMAIN DocsOf(r) |-> TaskRequest(s, DocsOf(r)[k])]]

FindOrderTasksOnLinks(s, r) ==
    IF r.kind = "http" /\ ~IsOk(r)
    THEN PlainCatch(s, <<"Failed to fetch OrderHeaderWorkEffort: ", ToString(r.status)>>)
    ELSE IF QueryFailed(r) THEN PlainCatch(s, FetchFailure(r))
    ELSE IF Len(DocsOf(r)) = 0
    THEN Return(s, SuccessResult(<<Text(<<"JSON">>)>>, [tasks |-> <<>>]))
    ELSE Fetch([s EXCEPT !.linkDocs = DocsOf(r), !.idx = 1],
               TaskRequest(s, DocsOf(r)[1]), "task")

\* new Date(createdDate) is a valid date
IsValidDate(v) == v \in NumVals

\* new Date(createdDate).toISOString()
ToISOString(v) == IF v = "n1700000000000" THEN "2023-11-14T22:13:20.000Z"
                  ELSE "1970-01-01T00:00:00.000Z"

\* tasks.push({ ... description: description || undefined, createdDate: ... })
FindOrderTasksLinkProject(task) ==
    [workEffortId |-> Get(task, "workEffortId"),
     workEffortName |-> Get(task, "workEffortName"),
     workEffortTypeId |-> Get(task, "workEffortTypeId"),
     currentStatusId |-> Get(task, "currentStatusId"),
     description |-> OrUndef(Get(task, "description")),
     createdDate |-> IF Truthy(Get(task, "createdDate"))
                     THEN ToISOString(Get(task, "createdDate")) ELSE UNDEF]

\* the loop never leaves its last link
FindOrderTasksNextLink_Again(s) ==
    IF s.idx < Len(s.linkDocs)
    THEN Fetch([s EXCEPT !.idx = @ + 1], TaskRequest(s, s.linkDocs[s.idx + 1]), "task")
    ELSE Fetch(s, TaskRequest(s, s.linkDocs[s.idx]), "task")

\* the end of one pass of `for (const link of linkDocs)`
FindOrderTasksNextLink(s) ==
    IF s.idx < Len(s.linkDocs)
    THEN Fetch([s EXCEPT !.idx = @ + 1], TaskRequest(s, s.linkDocs[s.idx + 1]), "task")
    ELSE Return(s, SuccessResult(<<Text(<<"JSON">>)>>, [tasks |-> s.tasks]))

\* Step 2: Fetch details for each WorkEffort found; Step 3: Filter by type
FindOrderTasksOnTask(s, r) ==
    IF r.kind = "throw" THEN PlainCatch(s, FetchFailure(r))
    ELSE IF ~IsOk(r) THEN FindOrderTasksNextLink(s)
    ELSE IF ~r.decodable THEN PlainCatch(s, FetchFailure(r))
    ELSE IF Len(DocsOf(r)) = 0 THEN FindOrderTasksNextLink(s)
    ELSE LET task == DocsOf(r)[1]
         IN  IF Truthy(Get(s.args, "workEffortTypeId"))
                /\ Get(task, "workEffortTypeId") # s.args.workEffortTypeId
             THEN FindOrderTasksNextLink(s)
             ELSE IF Truthy(Get(task, "createdDate")) /\ ~IsValidDate(Get(task, "createdDate"))
             THEN PlainCatch(s, <<"Invalid time value">>)
             ELSE FindOrderTasksNextLink(
                     [s EXCEPT !.tasks = Append(@, FindOrderTasksLinkProject(task))])

(* getImportSapiOrderConfig: src/src/tools/getImportSapiOrderConfig.ts *)

RuntimeDataRows == {[runtimeDataId |-> "RT1", runtimeInfo |-> "<runtime/>"]}

\* const configId = args.configId || 'IMP_SAPI_ORDER'
SapiConfigId(s) == Or(Get(s.args, "configId"), "IMP_SAPI_ORDER")

GetImportSapiOrderConfigStart(s) ==
    Fetch(s, getRequestOptions(s, "DataManagerConfig",
                               [dataManagerConfigId |-> SapiConfigId(s)]),
          "sapiConfig")

GetImportSapiOrderConfigResult(s, config) ==
    SuccessResult(<<Text(<<"JSON">>)>>,
        [configId |-> Or(Get(config, "dataManagerConfigId"), Get(s.args, "configId")),
         description |-> OrUndef(Get(config, "description")),
         jobName |-> OrUndef(Get(config, "jobName")),
         runtimeDataId |-> OrUndef(Get(config, "runtimeDataId")),
         runtimeInfo |-> OrUndef(Get(config, "runtimeInfo"))])

\* 1. Fetch DataManagerConfig
GetImportSapiOrderConfigOnConfig(s, r) ==
    IF QueryFailed(r) THEN PlainCatch(s, QueryFailure(r))
    ELSE IF Len(DocsOf(r)) = 0
    THEN Return(s, ErrorResult(<<Text(<<"Config not found: ", SapiConfigId(s)>>)>>))
    ELSE LET config == DocsOf(r)[1]
         IN  IF Truthy(Get(config, "runtimeDataId"))
             THEN Fetch([s EXCEPT !.config = config],
                        getRequestOptions(s, "RuntimeData",
                                          [runtimeDataId |-> config.runtimeDataId]),
                        "runtimeData")
             ELSE Return(s, GetImportSapiOrderConfigResult(s, config))

\* 2. Fetch RuntimeData if present
GetImportSapiOrderConfigOnRuntimeData(s, r) ==
    IF r.kind = "throw" THEN PlainCatch(s, FetchFailure(r))
    ELSE IF IsOk(r) /\ ~r.decodable THEN PlainCatch(s, FetchFailure(r))
    ELSE Return(s, GetImportSapiOrderConfigResult(s, s.config))

(* findProductById: src/unnamed/part_000, its first module *)

ProductRows ==
    {[productId |-> "P1", productName |-> n, internalName |-> "P1",
      productTypeId |-> "FINISHED_GOOD", isVirtual |-> "N", isVariant |-> "N"] :
        n \in {"Widget", NULL}}

\* Try finding by productId first
FindProductByIdStart(s) ==
    Fetch(s, getRequestOptions(s, "Product", [productId |-> s.args.id]), "productById")

FindProductByIdFinish(s, r) ==
    IF Len(DocsOf(r)) = 0
    THEN Return(s, ErrorResult(<<Text(<<"Product not found: ", s.args.id>>)>>))
    ELSE LET product == DocsOf(r)[1]
         IN  Return(s, SuccessResult(<<Text(<<"JSON">>)>>,
                 [productId |-> Get(product, "productId"),
                  productName |-> OrUndef(Get(product, "productName")),
                  internalName |-> OrUndef(Get(product, "internalName")),
                  description |-> OrUndef(Get(product, "description")),
                  productTypeId |-> OrUndef(Get(product, "productTypeId")),
                  isVirtual |-> OrUndef(Get(product, "isVirtual")),
                  isVariant |-> OrUndef(Get(product, "isVariant"))]))

\* the query by productId is sent again when it failed or found nothing
FindProductByIdOnFirst_Retry(s, r) ==
    IF r.kind = "throw" \/ ~r.decodable \/ Len(DocsOf(r)) = 0
    THEN Fetch(s, getRequestOptions(s, "Product", [productId |-> s.args.id]),
               "productByName")
    ELSE FindProductByIdFinish(s, r)

\* the query by internalName is sent whatever the first query found
FindProductByIdOnFirst_AlwaysFallback(s, r) ==
    IF r.kind = "throw" \/ ~r.decodable THEN PlainCatch(s, FetchFailure(r))
    ELSE Fetch(s, getRequestOptions(s, "Product", [internalName |-> s.args.id]),
               "productByName")

\* the first answer: response.ok is never read
FindProductByIdOnFirst(s, r) ==
    IF r.kind = "throw" \/ ~r.decodable THEN PlainCatch(s, FetchFailure(r))
    ELSE IF Len(DocsOf(r)) = 0
    THEN Fetch(s, getRequestOptions(s, "Product", [internalName |-> s.args.id]),
               "productByName")
    ELSE FindProductByIdFinish(s, r)

\* Fallback: Try finding by internalName
FindProductByIdOnSecond(s, r) ==
    IF r.kind = "throw" \/ ~r.decodable THEN PlainCatch(s, FetchFailure(r))
    ELSE FindProductByIdFinish(s, r)

(* uploadFileToConfig: src/src/tools/uploadFileToConfig.ts *)

UploadResponses ==
    {Thrown,
     Http(500, FALSE, [text |-> "<html>Internal Server Error</html>"]),
     Http(200, FALSE, [text |-> "<html>login</html>"]),
     Http(200, TRUE, [responseMessage |-> "error", errorMessage |-> "bad file"]),
     Http(200, TRUE, [responseMessage |-> "fail", errorMessageList |-> "bad rows"]),
     Http(200, TRUE, [responseMessage |-> "success", uploadFileContentId |-> "U1"]),
     Http(200, TRUE, [uploadFileContentId |-> "U1"]),
     Http(200, TRUE, [responseMessage |-> "success"])}

UploadFileToConfigStart(s) ==
    Fetch(s, [endpoint |-> "uploadAndImportFile", entityName |-> UNDEF,
              inputFields |-> [configId |-> s.args.configId,
                               uploadedFile |-> s.args.file,
                               _uploadedFile_fileName |-> s.args.fileName],
              viewSize |-> UNDEF, orderBy |-> UNDEF,
              headers |-> UploadHeaders(s.downstreamToken, serverConfig)],
          "upload")

\* the body of a 200 answer is not inspected for an embedded service error
UploadFileToConfigOnResponse_NoBodyCheck(s, r) ==
    IF r.kind = "throw" THEN PlainCatch(s, FetchFailure(r))
    ELSE IF ~IsOk(r)
    THEN PlainCatch(s, <<"OFBiz service call failed: ", ToString(r.status), " - ",
                         r.body.text>>)
    ELSE IF ~r.decodable THEN PlainCatch(s, FetchFailure(r))
    ELSE Return(s, SuccessResult(
            <<Text(<<"File uploaded successfully.", "Config ID: ", s.args.configId,
                     "Content ID: ", Or(Get(r.body, "uploadFileContentId"), "N/A")>>)>>,
            [configId |-> s.args.configId,
             uploadFileContentId |-> Get(r.body, "uploadFileContentId"),
             status |-> "success"]))

UploadFileToConfigOnResponse(s, r) ==
    IF r.kind = "throw" THEN PlainCatch(s, FetchFailure(r))
    ELSE IF ~IsOk(r)
    THEN PlainCatch(s, <<"OFBiz service call failed: ", ToString(r.status), " - ",
                         r.body.text>>)
    ELSE IF ~r.decodable THEN PlainCatch(s, FetchFailure(r))
    ELSE IF Get(r.body, "responseMessage") \in {"error", "fail"}
    THEN PlainCatch(s, <<"Service returned error: ",
                         Str(Or(Get(r.body, "errorMessage"),
                                Get(r.body, "errorMessageList")))>>)
    ELSE Return(s, SuccessResult(
            <<Text(<<"File uploaded successfully.", "Config ID: ", s.args.configId,
                     "Content ID: ", Or(Get(r.body, "uploadFileContentId"), "N/A")>>)>>,
            [configId |-> s.args.configId,
             uploadFileContentId |-> Get(r.body, "uploadFileContentId"),
             status |-> "success"]))

----------------------------------------------------------------------------
(* The system: the host invokes a tool; the backend and the file system   *)
(* answer the handler's awaits                                            *)

Invocations == {"i1"}

Tools ==
    GetContentTools \cup
    {"getLogById", "retryFailedRecord", "findDataManagerLogs", "listRecentErrors",
     "findPickProfileGroups", "getLogConfig", "findOrderItems", "findOrderHeader",
     "findOrderTasks", "findOrderTasks_links", "getImportSapiOrderConfig",
     "findProductById", "uploadFileToConfig"}

\* the inputs the host may pass to a tool
ToolArgs(tool) ==
    CASE tool \in {"getContent", "getContent_part_002"} ->
            {[contentId |-> "C1"]}
      [] tool = "getContent_part_003" ->
            {[contentId |-> "C1", configId |-> c, category |-> g] :
                c \in {UNDEF, "CFG1"}, g \in {UNDEF, "error"}}
      [] tool = "getLogById" -> {[logId |-> "40160"]}
      [] tool = "retryFailedRecord" -> {[logId |-> l] : l \in {"40160", " 40160 "}}
      [] tool = "findDataManagerLogs" ->
            {[logId |-> l, configId |-> UNDEF, statusId |-> st, jobId |-> UNDEF] :
                l \in {UNDEF, "40160"}, st \in {UNDEF, "SERVICE_FAILED"}}
      [] tool = "listRecentErrors" ->
            {[limit |-> l, configId |-> c] : l \in {UNDEF, "n0", "n1"}, c \in {UNDEF, "CFG1"}}
      [] tool = "findPickProfileGroups" ->
            {[pickProfileGroupId |-> g, groupName |-> n, description |-> UNDEF] :
                g \in {UNDEF, "G1"}, n \in {UNDEF, "Main"}}
      [] tool = "getLogConfig" -> {[configId |-> "CFG1"]}
      [] tool = "findOrderItems" -> {[orderId |-> o] : o \in {"1001", ""}}
      [] tool = "findOrderHeader" ->
            {[orderId |-> o, externalId |-> e] : o \in {UNDEF, "1001"}, e \in {UNDEF, "EXT1"}}
      [] tool \in {"findOrderTasks", "findOrderTasks_links"} ->
            {[orderId |-> "1001", workEffortTypeId |-> t] :
                t \in {UNDEF, "TASK"}}
      [] tool = "getImportSapiOrderConfig" ->
            {[configId |-> c] : c \in {UNDEF, "IMP_SAPI_ORDER"}}
      [] tool = "findProductById" -> {[id |-> "P1"]}
      [] tool = "uploadFileToConfig" ->
            {[configId |-> "CFG1", file |-> "id,qty", fileName |-> "data.csv"]}

\* the handler from its entry to its first await, or to an early return
Start(s) ==
    CASE s.tool \in GetContentTools -> GetContentStart(s)
      [] s.tool = "getLogById" -> GetLogByIdStart(s)
      [] s.tool = "retryFailedRecord" -> RetryFailedRecordStart(s)
      [] s.tool = "findDataManagerLogs" -> FindDataManagerLogsStart(s)
      [] s.tool = "listRecentErrors" -> ListRecentErrorsStart(s)
      [] s.tool = "findPickProfileGroups" -> FindPickProfileGroupsStart(s)
      [] s.tool = "getLogConfig" -> GetLogConfigStart(s)
      [] s.tool = "findOrderItems" -> FindOrderItemsStart(s)
      [] s.tool = "findOrderHeader" -> FindOrderHeaderStart(s)
      [] s.tool = "findOrderTasks" -> FindOrderTasksStart(s)
      [] s.tool = "findOrderTasks_links" -> FindOrderTasksLinkStart(s)
      [] s.tool = "getImportSapiOrderConfig" -> GetImportSapiOrderConfigStart(s)
      [] s.tool = "findProductById" -> FindProductByIdStart(s)
      [] s.tool = "uploadFileToConfig" -> UploadFileToConfigStart(s)

\* the file systems the process may start in
Environments ==
    {[runtimeDirs |-> {}, targetDirs |-> {}],
     [runtimeDirs |-> {<<"app", "runtime">>}, targetDirs |-> {}],
     [runtimeDirs |-> {<<"app", "runtime">>},
      targetDirs |-> {<<"app", "runtime", "uploadedFile_CFG1">>}],
     [runtimeDirs |-> {<<"runtime">>}, targetDirs |-> {}]}

Init ==
    /\ serverConfig \in {[BACKEND_API_BASE |-> "https://erp", BACKEND_USER_AGENT |-> "mcp",
                          BACKEND_ACCESS_TOKEN |-> t] : t \in {UNDEF, "T2"}}
    /\ \E e \in Environments : runtimeDirs = e.runtimeDirs /\ targetDirs = e.targetDirs
    /\ files = {}
    /\ inv = [i \in Invocations |-> Idle]

\* the host calls handler(args, request)
Invoke(i) ==
    /\ inv[i].pc = "idle"
    /\ \E tool \in Tools, downstreamToken \in {UNDEF, "T1"} :
        \E args \in ToolArgs(tool) :
            inv' = [inv EXCEPT ![i] =
                      Start([Idle EXCEPT !.tool = tool, !.args = args,
                                         !.downstreamToken = downstreamToken])]
    /\ UNCHANGED <<serverConfig, runtimeDirs, targetDirs, files>>

\* invocation i of one of `tools` is suspended at the await `label`
Awaiting(i, tools, label) == inv[i].tool \in tools /\ inv[i].pc = label

\* the awaited fetch of invocation i has settled and the handler ran on to state s
Resume(i, s) ==
    /\ inv' = [inv EXCEPT ![i] = s]
    /\ UNCHANGED <<serverConfig, runtimeDirs, targetDirs, files>>

One(Rows) == SeqsUpTo(Rows, 1)

Many(Rows) == SeqsUpTo(Rows, MaxDocs)

GetContentContent(i) ==
    /\ Awaiting(i, GetContentTools, "content")
    /\ \E r \in FindResponses(One(ContentRows)) :
        Resume(i, GetContentOnContent(Received(inv[i], r), r))

GetContentDataResource(i) ==
    /\ Awaiting(i, GetContentTools, "dataResource")
    /\ \E r \in FindResponses(One(DataResourceRows)) :
        Resume(i, GetContentOnDataResource(Received(inv[i], r), r))

GetContentText(i) ==
    /\ Awaiting(i, GetContentTools, "text")
    /\ \E r \in FindResponses(One(ElectronicTextRows)) :
        Resume(i, GetContentOnText(Received(inv[i], r), r))

GetContentDownload(i) ==
    /\ Awaiting(i, GetContentTools, "download")
    /\ \E r \in DownloadResponses :
        Resume(i, GetContentOnDownload(Received(inv[i], r), r))

GetContentMkdir(i) ==
    /\ inv[i].tool = "getContent_part_003"
    /\ inv[i].pc = "mkdir"
    /\ \E ok \in BOOLEAN :
        /\ inv' = [inv EXCEPT ![i] = GetContentOnMkdir(inv[i], ok)]
        /\ targetDirs' = IF ok
                         THEN targetDirs \cup {TargetDir(inv[i], findRuntimeDir(HandlerDir))}
                         ELSE targetDirs
    /\ UNCHANGED <<serverConfig, runtimeDirs, files>>

GetContentWriteFile(i) ==
    /\ inv[i].tool = "getContent_part_003"
    /\ inv[i].pc = "writeFile"
    /\ \E ok \in BOOLEAN :
        /\ inv' = [inv EXCEPT ![i] = GetContentOnWriteFile(inv[i], ok)]
        /\ files' = IF ok
                    THEN {f \in files : f.path # inv[i].savedPath}
                         \cup {[path |-> inv[i].savedPath, data |-> inv[i].textData]}
                    ELSE files
    /\ UNCHANGED <<serverConfig, runtimeDirs, targetDirs>>

GetLogByIdResponse(i) ==
    /\ Awaiting(i, {"getLogById"}, "getLogById")
    /\ \E r \in FindResponses(One(DataManagerLogRows)) :
        Resume(i, GetLogByIdOnResponse(Received(inv[i], r), r))

RetryFailedRecordResponse(i) ==
    /\ Awaiting(i, {"retryFailedRecord"}, "retryFailedRecord")
    /\ \E r \in FindResponses(One(DataManagerLogRows)) :
        Resume(i, RetryFailedRecordOnResponse(Received(inv[i], r), r))

FindDataManagerLogsResponse(i) ==
    /\ Awaiting(i, {"findDataManagerLogs"}, "findDataManagerLogs")
    /\ \E r \in FindResponses(Many(DataManagerLogRows)) :
        Resume(i, FindDataManagerLogsOnResponse(Received(inv[i], r), r))

ListRecentErrorsResponse(i) ==
    /\ Awaiting(i, {"listRecentErrors"}, "listRecentErrors")
    /\ \E r \in FindResponses(Many(DataManagerLogRows)) :
        Resume(i, ListRecentErrorsOnResponse(Received(inv[i], r), r))

FindPickProfileGroupsResponse(i) ==
    /\ Awaiting(i, {"findPickProfileGroups"}, "findPickProfileGroups")
    /\ \E r \in FindResponses(Many(PickProfileGroupRows)) :
        Resume(i, FindPickProfileGroupsOnResponse(Received(inv[i], r), r))

GetLogConfigResponse(i) ==
    /\ Awaiting(i, {"getLogConfig"}, "getLogConfig")
    /\ \E r \in FindResponses(One(DataManagerConfigRows)) :
        Resume(i, GetLogConfigOnResponse(Received(inv[i], r), r))

FindOrderItemsResponse(i) ==
    /\ Awaiting(i, {"findOrderItems"}, "findOrderItems")
    /\ \E r \in FindResponses(Many(OrderItemRows)) :
        Resume(i, FindOrderItemsOnResponse(Received(inv[i], r), r))

FindOrderHeaderResponse(i) ==
    /\ Awaiting(i, {"findOrderHeader"}, "findOrderHeader")
    /\ \E r \in FindResponses(One(OrderHeaderRows)) :
        Resume(i, FindOrderHeaderOnResponse(Received(inv[i], r), r))

FindOrderTasksResponse(i) ==
    /\ Awaiting(i, {"findOrderTasks"}, "findOrderTasks")
    /\ \E r \in FindResponses(Many(WorkEffortRows)) :
        Resume(i, FindOrderTasksOnResponse(Received(inv[i], r), r))

FindOrderTasksLinks(i) ==
    /\ Awaiting(i, {"findOrderTasks_links"}, "links")
    \* (orderId, workEffortId) is the key of a link row: an answer lists a row once
    /\ \E r \in FindResponses({d \in SeqsUpTo(OrderHeaderWorkEffortRows, MaxLinks) :
                                    \A a, b \in DOMAIN d : a # b => d[a] # d[b]}) :
        Resume(i, FindOrderTasksOnLinks(Received(inv[i], r), r))

\* the WorkEffort rows the backend holds for the link being followed
LinkedWorkEfforts(s) ==
    {w \in WorkEffortRows : w.workEffortId = Get(s.linkDocs[s.idx], "workEffortId")}

FindOrderTasksTask(i) ==
    /\ Awaiting(i, {"findOrderTasks_links"}, "task")
    /\ \E r \in FindResponses(One(LinkedWorkEfforts(inv[i]))) :
        Resume(i, FindOrderTasksOnTask(Received(inv[i], r), r))

GetImportSapiOrderConfigConfig(i) ==
    /\ Awaiting(i, {"getImportSapiOrderConfig"}, "sapiConfig")
    /\ \E r \in FindResponses(One(DataManagerConfigRows)) :
        Resume(i, GetImportSapiOrderConfigOnConfig(Received(inv[i], r), r))

GetImportSapiOrderConfigRuntimeData(i) ==
    /\ Awaiting(i, {"getImportSapiOrderConfig"}, "runtimeData")
    /\ \E r \in FindResponses(One(RuntimeDataRows)) :
        Resume(i, GetImportSapiOrderConfigOnRuntimeData(Received(inv[i], r), r))

FindProductByIdFirst(i) ==
    /\ Awaiting(i, {"findProductById"}, "productById")
    /\ \E r \in FindResponses(One(ProductRows)) :
        Resume(i, FindProductByIdOnFirst(Received(inv[i], r), r))

FindProductByIdSecond(i) ==
    /\ Awaiting(i, {"findProductById"}, "productByName")
    /\ \E r \in FindResponses(One(ProductRows)) :
        Resume(i, FindProductByIdOnSecond(Received(inv[i], r), r))

UploadFileToConfigResponse(i) ==
    /\ Awaiting(i, {"uploadFileToConfig"}, "upload")
    /\ \E r \in UploadResponses :
        Resume(i, UploadFileToConfigOnResponse(Received(inv[i], r), r))

Next ==
    \E i \in Invocations :
        \/ Invoke(i)
        \/ GetContentContent(i)
        \/ GetContentDataResource(i)
        \/ GetContentText(i)
        \/ GetContentDownload(i)
        \/ GetContentMkdir(i)
        \/ GetContentWriteFile(i)
        \/ GetLogByIdResponse(i)
        \/ RetryFailedRecordResponse(i)
        \/ FindDataManagerLogsResponse(i)
        \/ ListRecentErrorsResponse(i)
        \/ FindPickProfileGroupsResponse(i)
        \/ GetLogConfigResponse(i)
        \/ FindOrderItemsResponse(i)
        \/ FindOrderHeaderResponse(i)
        \/ FindOrderTasksResponse(i)
        \/ FindOrderTasksLinks(i)
        \/ FindOrderTasksTask(i)
        \/ GetImportSapiOrderConfigConfig(i)
        \/ GetImportSapiOrderConfigRuntimeData(i)
        \/ FindProductByIdFirst(i)
        \/ FindProductByIdSecond(i)
        \/ UploadFileToConfigResponse(i)

Spec == Init /\ [][Next]_vars

\* every awaited outbound call or file operation eventually settles
Settled == Next /\ \A i \in Invocations : inv[i].pc # "idle"

FairSpec == Spec /\ WF_vars(Settled)

----------------------------------------------------------------------------
(* Two invocations in one process: the host runs handlers concurrently, *)
(* each handler step between two awaits is atomic (one event loop)      *)

PairInvocations == {"i1", "i2"}

\* the tools run in pairs
PairTools == {"getContent_part_003", "findDataManagerLogs"}

\* what is explored with two invocations: a getContent that persists content
\* of type text/csv or of no type, and a backend that answers every call with
\* status 200 and at most one row
InPairScope(s) ==
    /\ s.tool \in PairTools
    /\ s.tool = "getContent_part_003"
        => /\ Truthy(s.args.configId) /\ ~Truthy(s.args.category)
           /\ Get(s.contentRecord, "mimeTypeId") \in {UNDEF, NULL, "text/csv"}
    /\ \A k \in DOMAIN s.resps :
        /\ IsOk(s.resps[k])
        /\ s.calls[k].endpoint = "performFind"
            => /\ s.resps[k].decodable
               /\ "docs" \in DOMAIN s.resps[k].body
               /\ Len(DocsOf(s.resps[k])) <= 1

InitPair ==
    /\ serverConfig \in {[BACKEND_API_BASE |-> "https://erp", BACKEND_USER_AGENT |-> "mcp",
                          BACKEND_ACCESS_TOKEN |-> t] : t \in {UNDEF, "T2"}}
    /\ \E e \in Environments :
        /\ <<"app", "runtime">> \in e.runtimeDirs
        /\ runtimeDirs = e.runtimeDirs /\ targetDirs = e.targetDirs
    /\ files = {}
    /\ inv = [i \in PairInvocations |-> Idle]

NextPair ==
    \E i \in PairInvocations :
        \/ Invoke(i) /\ InPairScope(inv'[i])
        \/ GetContentContent(i) /\ InPairScope(inv'[i])
        \/ GetContentDataResource(i) /\ InPairScope(inv'[i])
        \/ GetContentText(i) /\ InPairScope(inv'[i])
        \/ GetContentDownload(i) /\ InPairScope(inv'[i])
        \/ GetContentMkdir(i)
        \/ GetContentWriteFile(i)
        \/ FindDataManagerLogsResponse(i) /\ InPairScope(inv'[i])

SpecPair == InitPair /\ [][NextPair]_vars

----------------------------------------------------------------------------
(* The declared output schemas (zod) *)

\* z.string().optional(), z.string().nullable().optional(), z.string(), ...
Field(types, optional, nullable) ==
    [types |-> types, optional |-> optional, nullable |-> nullable]

RequiredString == Field({"string"}, FALSE, FALSE)
OptionalString == Field({"string"}, TRUE, FALSE)
OptionalNumber == Field({"number"}, TRUE, FALSE)
OptionalStringOrNumber == Field({"string", "number"}, TRUE, FALSE)
NullableString == Field({"string"}, TRUE, TRUE)
NullableNumber == Field({"number"}, TRUE, TRUE)
NullableStringOrNumber == Field({"string", "number"}, TRUE, TRUE)

DateFields == {"createdDate", "startDateTime", "finishDateTime", "cancelDateTime"}

GetContentSchema(tool) ==
    [f \in {"contentId", "dataResourceId", "textData", "mimeType"}
           \cup (IF tool = "getContent_part_003" THEN {"savedPath"} ELSE {}) |->
        IF f = "contentId" THEN RequiredString ELSE OptionalString]

GetLogByIdSchema ==
    [f \in DataManagerLogFields |->
        IF f = "logId" THEN RequiredString
        ELSE IF f \in DateFields THEN NullableStringOrNumber
        ELSE NullableString]

ListRecentErrorsSchema ==
    [f \in DataManagerLogFields |->
        IF f = "logId" THEN RequiredString
        ELSE IF f \in DateFields THEN OptionalStringOrNumber
        ELSE OptionalString]

FindDataManagerLogsSchema ==
    [f \in {"logId", "configId", "statusId", "jobId", "createdDate", "reason"} |->
        IF f = "logId" THEN RequiredString
        ELSE IF f = "createdDate" THEN OptionalStringOrNumber
        ELSE OptionalString]

FindPickProfileGroupsSchema ==
    [f \in {"pickProfileGroupId", "groupName", "description"} |->
        IF f = "pickProfileGroupId" THEN RequiredString ELSE OptionalString]

GetLogConfigSchema ==
    [f \in DataManagerConfigFields |->
        IF f = "configId" THEN RequiredString
        ELSE IF f = "priority" THEN NullableNumber
        ELSE NullableString]

FindOrderItemsSchema ==
    [f \in OrderItemFields |->
        IF f \in {"orderId", "orderItemSeqId"} THEN RequiredString
        ELSE IF f \in {"quantity", "unitPrice"} THEN OptionalNumber
        ELSE OptionalString]

FindOrderHeaderSchema ==
    [f \in OrderHeaderFields |->
        IF f = "orderId" THEN RequiredString
        ELSE IF f = "entryDate" THEN OptionalStringOrNumber
        ELSE IF f = "grandTotal" THEN OptionalNumber
        ELSE OptionalString]

FindOrderTasksSchema ==
    [f \in WorkEffortFields |->
        IF f = "workEffortId" THEN RequiredString ELSE OptionalString]

GetImportSapiOrderConfigSchema ==
    [f \in {"configId", "description", "jobName", "runtimeDataId", "runtimeInfo"} |->
        OptionalString]

FindProductByIdSchema ==
    [f \in {"productId", "productName", "internalName", "description", "productTypeId",
            "isVirtual", "isVariant"} |->
        IF f = "productId" THEN RequiredString ELSE OptionalString]

UploadFileToConfigSchema ==
    [f \in {"configId", "uploadFileContentId", "status"} |->
        IF f = "uploadFileContentId" THEN OptionalString ELSE RequiredString]

\* the key of the array in the output of a list tool
ListKey(tool) ==
    CASE tool \in {"findDataManagerLogs", "listRecentErrors"} -> "logs"
      [] tool = "findPickProfileGroups" -> "pickProfileGroups"
      [] tool = "findOrderItems" -> "items"
      [] tool \in {"findOrderTasks", "findOrderTasks_links"} -> "tasks"

ListTools ==
    {"findDataManagerLogs", "listRecentErrors", "findPickProfileGroups", "findOrderItems",
     "findOrderTasks", "findOrderTasks_links"}

\* the object schema of a tool's output, or of the elements of its array
OutputSchema(tool) ==
    CASE tool \in GetContentTools -> GetContentSchema(tool)
      [] tool = "getLogById" -> GetLogByIdSchema
      [] tool = "listRecentErrors" -> ListRecentErrorsSchema
      [] tool = "findDataManagerLogs" -> FindDataManagerLogsSchema
      [] tool = "findPickProfileGroups" -> FindPickProfileGroupsSchema
      [] tool = "getLogConfig" -> GetLogConfigSchema
      [] tool = "findOrderItems" -> FindOrderItemsSchema
      [] tool = "findOrderHeader" -> FindOrderHeaderSchema
      [] tool \in {"findOrderTasks", "findOrderTasks_links"} -> FindOrderTasksSchema
      [] tool = "getImportSapiOrderConfig" -> GetImportSapiOrderConfigSchema
      [] tool = "findProductById" -> FindProductByIdSchema
      [] tool = "uploadFileToConfig" -> UploadFileToConfigSchema

\* an object matches a schema strictly: no undeclared key, every required key,
\* null only where nullable, every value of a declared type
MatchesSchema(o, schema) ==
    /\ \A k \in DOMAIN o : o[k] # UNDEF => k \in DOMAIN schema
    /\ \A f \in DOMAIN schema :
        LET v == Get(o, f)
        IN  IF v = UNDEF THEN schema[f].optional
            ELSE IF v = NULL THEN schema[f].nullable
            ELSE JsType(v) \in schema[f].types

\* the structuredContent of a tool matches the tool's outputSchema
MatchesOutputSchema(tool, structuredContent) ==
    IF tool = "retryFailedRecord"
    THEN DOMAIN structuredContent = {"message", "canRetry"}
         /\ structuredContent.canRetry \in BOOLEAN
    ELSE IF tool \in ListTools
    THEN /\ DOMAIN structuredContent = {ListKey(tool)}
         /\ \A k \in DOMAIN structuredContent[ListKey(tool)] :
                MatchesSchema(structuredContent[ListKey(tool)][k], OutputSchema(tool))
    ELSE MatchesSchema(structuredContent, OutputSchema(tool))

----------------------------------------------------------------------------
(* Properties *)

Done(s) == s.pc = "done"

IsSuccess(res) == "structuredContent" \in DOMAIN res /\ "isError" \notin DOMAIN res

IsError(res) ==
    "isError" \in DOMAIN res /\ res.isError = TRUE /\ "structuredContent" \notin DOMAIN res

\* a failed outbound call: a transport error or a non-success status
Failed(r) == r.kind = "throw" \/ ~IsOk(r)

\* a successful answer with rows
HasRows(r) == IsOk(r) /\ r.decodable /\ Len(DocsOf(r)) > 0

\* a successful answer without rows
HasNoRows(r) == IsOk(r) /\ r.decodable /\ Len(DocsOf(r)) = 0

\* the index of the answered call on `entityName`, 0 if none
AnsweredCall(s, entityName) ==
    IF \E k \in DOMAIN s.resps : s.calls[k].entityName = entityName
    THEN CHOOSE k \in DOMAIN s.resps : s.calls[k].entityName = entityName
    ELSE 0

\* the ElectronicText query of s was answered with at least one row
TextRowReturned(s) ==
    /\ s.tool \in GetContentTools
    /\ AnsweredCall(s, "ElectronicText") # 0
    /\ HasRows(s.resps[AnsweredCall(s, "ElectronicText")])

\* the text of the first row of that answer
TextRow(s) == Get(DocsOf(s.resps[AnsweredCall(s, "ElectronicText")])[1], "textData")

DownloadEndpoints == {"DownloadCsvFile", "ViewBinaryDataResource"}

NoTokens(s) == ~Truthy(s.downstreamToken) /\ ~Truthy(serverConfig.BACKEND_ACCESS_TOKEN)

BothTokens(s) == Truthy(s.downstreamToken) /\ Truthy(serverConfig.BACKEND_ACCESS_TOKEN)

\* some content text of the result has `part` among its parts
Mentions(res, part) ==
    \E k \in DOMAIN res.content : \E j \in DOMAIN res.content[k].text :
        res.content[k].text[j] = part

\* C1: every returned result is either a Success (structuredContent present,
\* isError absent) or an Error (isError true, structuredContent absent), never
\* both and never neither; an invocation that has not returned has no result.
C1_ExactlyOneVariant ==
    \A i \in Invocations :
        IF Done(inv[i])
        THEN (IsSuccess(inv[i].result) /\ ~IsError(inv[i].result))
             \/ (IsError(inv[i].result) /\ ~IsSuccess(inv[i].result))
        ELSE DOMAIN inv[i].result = {"pending"}

\* C1's case: a getContent invocation whose Content query failed has returned
C1_Witness ==
    \E i \in Invocations :
        /\ Done(inv[i]) /\ inv[i].tool = "getContent"
        /\ Len(inv[i].resps) = 1 /\ Failed(inv[i].resps[1])
        /\ IsError(inv[i].result)

\* C2: in getContent, when the data resource is of a text type and the
\* ElectronicText query returned at least one row, the invocation returns
\* Success and structuredContent.textData is that row's textData, unchanged.
C2_TypedTextVerbatim ==
    \A i \in Invocations :
        (Done(inv[i]) /\ TextRowReturned(inv[i]))
            => /\ IsSuccess(inv[i].result)
               /\ inv[i].result.structuredContent.textData = TextRow(inv[i])

\* C3: in getContent, no download request is sent once the ElectronicText
\* query has produced a non-empty text.
C3_DownloadOnlyWithoutText ==
    \A i \in Invocations :
        (TextRowReturned(inv[i]) /\ Truthy(TextRow(inv[i])))
            => \A k \in DOMAIN inv[i].calls :
                   inv[i].calls[k].endpoint \notin DownloadEndpoints

\* C4: in getContent, when the Content query returns zero rows the result is
\* the Error "Content not found: <contentId>", and the Content query stays the
\* only outbound call and no file operation is made.
C4_ContentNotFoundStops ==
    \A i \in Invocations :
        (inv[i].tool \in GetContentTools /\ Len(inv[i].resps) >= 1
         /\ HasNoRows(inv[i].resps[1]))
            => /\ Done(inv[i])
               /\ IsError(inv[i].result)
               /\ inv[i].result.content =
                      <<Text(<<"Content not found: ", inv[i].args.contentId>>)>>
               /\ Len(inv[i].calls) = 1
               /\ inv[i].calls[1].entityName = "Content"
               /\ inv[i].fsOps = <<>>

\* C4's case: a getContent invocation whose Content query returned no rows
C4_Witness ==
    \E i \in Invocations :
        /\ inv[i].tool = "getContent_part_003"
        /\ Len(inv[i].resps) = 1 /\ HasNoRows(inv[i].resps[1])
        /\ Done(inv[i])

\* C5: when the request carries a delegated token T1 and the configuration a
\* static token T2, every outbound call carries Authorization 'Bearer T1';
\* a call carries 'Bearer T2' only when there is no delegated token.
C5_DelegatedTokenFirst ==
    \A i \in Invocations : \A k \in DOMAIN inv[i].calls :
        LET headers == inv[i].calls[k].headers
        IN  /\ BothTokens(inv[i])
                => /\ "Authorization" \in DOMAIN headers
                   /\ headers.Authorization = "Bearer " \o inv[i].downstreamToken
            /\ (Truthy(serverConfig.BACKEND_ACCESS_TOKEN)
                /\ Get(headers, "Authorization")
                       = "Bearer " \o serverConfig.BACKEND_ACCESS_TOKEN)
                => ~Truthy(inv[i].downstreamToken)

\* C5's case: with both tokens, getContent has sent its queries and a download
C5_Witness ==
    \E i \in Invocations :
        /\ BothTokens(inv[i])
        /\ inv[i].tool = "getContent_part_003"
        /\ \E k \in DOMAIN inv[i].calls : inv[i].calls[k].endpoint = "DownloadCsvFile"

\* C6: when there is neither a delegated nor a static token, no outbound call
\* carries an Authorization header (neither an empty one nor 'Bearer undefined').
C6_NoTokenNoHeader ==
    \A i \in Invocations : \A k \in DOMAIN inv[i].calls :
        NoTokens(inv[i]) => "Authorization" \notin DOMAIN inv[i].calls[k].headers

\* C7: in the persisting getContent, an invocation that reached the persistence
\* step (it asked the file system to create the directory or write the file)
\* returns Success with the retrieved textData, whether or not that step failed.
C7_PersistenceFailureIsNotAnError ==
    \A i \in Invocations :
        (Done(inv[i]) /\ inv[i].tool = "getContent_part_003" /\ inv[i].fsOps # <<>>)
            => /\ IsSuccess(inv[i].result)
               /\ inv[i].result.structuredContent.textData = inv[i].textData

\* C8: once an outbound call has failed (transport error or non-success
\* status), it is the last call of the invocation and the result is an Error.
C8_FailedCallFailsInvocation ==
    \A i \in Invocations : \A k \in DOMAIN inv[i].resps :
        Failed(inv[i].resps[k])
            => /\ Len(inv[i].calls) = k
               /\ Done(inv[i])
               /\ IsError(inv[i].result)

\* C9: a query tool whose query was answered with HTTP status 500 returns an
\* Error one of whose content texts contains the status code 500.
C9_Http500IsReported ==
    \A i \in Invocations :
        (Done(inv[i])
         /\ \E k \in DOMAIN inv[i].resps :
               /\ inv[i].calls[k].endpoint = "performFind"
               /\ inv[i].resps[k].kind = "http" /\ inv[i].resps[k].status = 500)
            => /\ IsError(inv[i].result)
               /\ Mentions(inv[i].result, "500")

\* C10: the structuredContent of every Success result strictly matches the
\* tool's declared output schema: only declared fields, every required field,
\* and no null in a field declared non-nullable.
C10_OutputMatchesSchema ==
    \A i \in Invocations :
        (Done(inv[i]) /\ IsSuccess(inv[i].result))
            => MatchesOutputSchema(inv[i].tool, inv[i].result.structuredContent)

\* the download request of s has been sent
DownloadIssued(s) == \E k \in DOMAIN s.calls : s.calls[k].endpoint \in DownloadEndpoints

\* the download request of s has been answered
DownloadAnswered(s) == \E k \in DOMAIN s.resps : s.calls[k].endpoint \in DownloadEndpoints

\* C11: in getContent, for a data resource of type OFBIZ_FILE or LOCAL_FILE,
\* an Error result is returned only after a raw-download request was issued
\* in the same invocation.
C11_FileTypeFailsOnlyAfterDownload ==
    \A i \in Invocations :
        (inv[i].tool \in GetContentTools /\ inv[i].dataResourceTypeId \in FileTypes
         /\ Done(inv[i]) /\ IsError(inv[i].result))
            => DownloadIssued(inv[i])

\* C11's case: a file-typed content whose download failed, reported as an Error
C11_Witness ==
    \E i \in Invocations :
        /\ inv[i].tool = "getContent_part_002"
        /\ inv[i].dataResourceTypeId \in FileTypes
        /\ Done(inv[i]) /\ IsError(inv[i].result)
        /\ Len(inv[i].resps) = 3 /\ Failed(inv[i].resps[3])

\* C12: in getContent, every Success result has a non-empty
\* structuredContent.textData, and an invocation whose text is still empty
\* after the typed fetch and the answered download returns an Error.
C12_NoTextIsAnError ==
    \A i \in Invocations :
        (inv[i].tool \in GetContentTools /\ Done(inv[i]))
            => /\ IsSuccess(inv[i].result)
                    => Truthy(Get(inv[i].result.structuredContent, "textData"))
               /\ (DownloadAnswered(inv[i]) /\ ~Truthy(inv[i].textData))
                    => IsError(inv[i].result)

\* C12's case: no ElectronicText row and an empty download body
C12_Witness ==
    \E i \in Invocations :
        /\ inv[i].tool = "getContent_part_002" /\ Done(inv[i])
        /\ inv[i].dataResourceTypeId \in TextTypes
        /\ Len(inv[i].resps) = 4
        /\ HasNoRows(inv[i].resps[3])
        /\ IsOk(inv[i].resps[4]) /\ inv[i].resps[4].body.text = ""

\* the Content query of s returned a record without a dataResourceId
NoLink(s) ==
    /\ Len(s.resps) >= 1 /\ HasRows(s.resps[1])
    /\ ~Truthy(Get(DocsOf(s.resps[1])[1], "dataResourceId"))

\* the DataResource query of s returned no row
NoDataResource(s) ==
    /\ Len(s.resps) >= 2 /\ s.calls[2].entityName = "DataResource"
    /\ HasNoRows(s.resps[2])

\* C13: in getContent, a Content record without dataResourceId gives the Error
\* "No dataResourceId for Content: <contentId>" after the one Content query,
\* and a DataResource query without rows gives the Error "DataResource not
\* found for ID: <dataResourceId>" after two queries; in both cases there is
\* no ElectronicText query, no download and no file operation.
C13_MissingLinkStops ==
    \A i \in Invocations :
        inv[i].tool \in GetContentTools
            => /\ NoLink(inv[i])
                    => /\ Done(inv[i]) /\ IsError(inv[i].result)
                       /\ inv[i].result.content =
                              <<Text(<<"No dataResourceId for Content: ",
                                       inv[i].args.contentId>>)>>
                       /\ Len(inv[i].calls) = 1
                       /\ inv[i].fsOps = <<>>
               /\ NoDataResource(inv[i])
                    => /\ Done(inv[i]) /\ IsError(inv[i].result)
                       /\ inv[i].result.content =
                              <<Text(<<"DataResource not found for ID: ",
                                       Get(DocsOf(inv[i].resps[1])[1], "dataResourceId")>>)>>
                       /\ Len(inv[i].calls) = 2
                       /\ inv[i].fsOps = <<>>

\* C13's case: the DataResource query of a persisting getContent found no row
C13_Witness ==
    \E i \in Invocations :
        /\ inv[i].tool = "getContent_part_003"
        /\ Truthy(Get(inv[i].args, "configId"))
        /\ NoDataResource(inv[i]) /\ Done(inv[i])

\* the k-th call of s failed: transport error, non-success status, or a body
\* that response.json() cannot decode
CallFailed(s, k) ==
    \/ Failed(s.resps[k])
    \/ s.calls[k].endpoint \notin DownloadEndpoints /\ ~s.resps[k].decodable

\* C14: no exception escapes a handler: every returned result is a Success or
\* an Error, and an invocation one of whose calls failed (non-success status,
\* transport error, undecodable body) returns an Error.
C14_FailureBecomesError ==
    \A i \in Invocations :
        Done(inv[i])
            => /\ IsSuccess(inv[i].result) \/ IsError(inv[i].result)
               /\ (\E k \in DOMAIN inv[i].resps : CallFailed(inv[i], k))
                    => IsError(inv[i].result)

\* the pcs at which no fetch is awaited
NotFetching == {"idle", "done", "mkdir", "writeFile"}

\* C16: within one invocation the outbound calls are strictly sequential: at
\* most one call is outstanding, a call is issued only once every earlier call
\* has been answered, and none is outstanding when the handler has returned;
\* the findOrderTasks detail loop issues one WorkEffort query per link, in
\* link order, and a Success result follows exactly one query per link.
C16_CallsAreSequential ==
    \A i \in Invocations :
        LET s == inv[i]
            links == DocsOf(s.resps[1])
        IN  /\ Len(s.calls) - Len(s.resps) \in {0, 1}
            /\ s.pc \in NotFetching <=> Len(s.calls) = Len(s.resps)
            /\ (s.tool = "findOrderTasks_links" /\ Len(s.resps) >= 1)
                => /\ Len(s.calls) <= 1 + Len(links)
                   /\ \A k \in 2..Len(s.calls) :
                        /\ s.calls[k].entityName = "WorkEffort"
                        /\ Get(s.calls[k].inputFields, "workEffortId")
                               = Get(links[k - 1], "workEffortId")
                   /\ (Done(s) /\ IsSuccess(s.result)) => Len(s.calls) = 1 + Len(links)

\* C16's case: the detail loop has run over two links and returned
C16_Witness ==
    \E i \in Invocations :
        /\ inv[i].tool = "findOrderTasks_links" /\ Done(inv[i])
        /\ Len(inv[i].linkDocs) = 2 /\ Len(inv[i].resps) = 3
        /\ IsSuccess(inv[i].result)

\* two requests with the same endpoint, entity name and filter fields
SameRequest(a, b) ==
    /\ a.endpoint = b.endpoint
    /\ a.entityName = b.entityName
    /\ a.inputFields = b.inputFields

C19_RetryOnlyReads ==
    \A i \in Invocations :
        (inv[i].tool = "retryFailedRecord" /\ inv[i].pc # "idle")
            => /\ Len(inv[i].calls) = 1
               /\ inv[i].calls[1].endpoint = "performFind"
               /\ inv[i].calls[1].entityName = "DataManagerLog"
               /\ (Done(inv[i]) /\ IsSuccess(inv[i].result))
                    => inv[i].result.structuredContent.canRetry = FALSE

\* C19's case: retryFailedRecord found the log and returned its instructions
C19_Witness ==
    \E i \in Invocations :
        /\ inv[i].tool = "retryFailedRecord" /\ Done(inv[i])
        /\ HasRows(inv[i].resps[1])
        /\ IsSuccess(inv[i].result)

\* the largest number of outbound calls an invocation of s's tool may issue
MaxCalls(s) ==
    IF s.tool \in GetContentTools THEN 4
    ELSE IF s.tool = "findOrderTasks_links" THEN 1 + Len(s.linkDocs)
    ELSE IF s.tool \in {"findProductById", "getImportSapiOrderConfig"} THEN 2
    ELSE 1

\* C18: provided every outbound call eventually settles, every started
\* invocation eventually returns a result, and it does so after a bounded
\* number of outbound calls: at most 4 for getContent, at most 1 plus the
\* number of link rows for findOrderTasks.
C18_EveryInvocationReturns ==
    /\ [](\A i \in Invocations : Len(inv[i].calls) <= MaxCalls(inv[i]))
    /\ \A i \in Invocations :
        (inv[i].pc # "idle")
            ~> (Done(inv[i]) /\ (IsSuccess(inv[i].result) \/ IsError(inv[i].result)))

\* C18's case: a getContent chain that ran through all its four calls
C18_Witness ==
    \E i \in Invocations :
        /\ inv[i].tool = "getContent_part_002" /\ Done(inv[i])
        /\ Len(inv[i].calls) = 4 /\ Len(inv[i].resps) = 4

\* the paths invocation i asked the file system to create or write
WrittenPaths(i) == {inv[i].fsOps[k].path : k \in DOMAIN inv[i].fsOps}

\* C15: concurrent invocations are independent: every call of an invocation
\* carries that invocation's own delegated token when it has one and never
\* a delegated token when it has none, and no directory or file written by
\* one invocation is written by another.
C15_InvocationsAreIndependent ==
    \A i, j \in DOMAIN inv :
        i # j
            => /\ \A k \in DOMAIN inv[i].calls :
                    LET authorization == Get(inv[i].calls[k].headers, "Authorization")
                    IN  IF Truthy(inv[i].downstreamToken)
                        THEN authorization = "Bearer " \o inv[i].downstreamToken
                        ELSE authorization # "Bearer T1"
               /\ WrittenPaths(i) \cap WrittenPaths(j) = {}

\* two invocations of the same tool with the same input and request context
\* whose calls got the same answers
SameInvocation(i, j) ==
    /\ inv[i].tool = inv[j].tool
    /\ inv[i].args = inv[j].args
    /\ inv[i].downstreamToken = inv[j].downstreamToken
    /\ inv[i].resps = inv[j].resps

\* C20: two invocations of the same query tool with identical input and
\* request context, answered identically by the backend, return identical
\* structuredContent; when the tool touches no file they return identical
\* results.
C20_SameInputSameOutput ==
    \A i, j \in DOMAIN inv :
        (Done(inv[i]) /\ Done(inv[j]) /\ SameInvocation(i, j))
            => /\ (IsSuccess(inv[i].result) /\ IsSuccess(inv[j].result))
                    => inv[i].result.structuredContent = inv[j].result.structuredContent
               /\ inv[i].fsOps = <<>> /\ inv[j].fsOps = <<>>
                    => inv[i].result = inv[j].result

\* C20's case: getContent has run twice on the same content and configuration
\* and saved the same text both times
C20_Witness ==
    \E i, j \in DOMAIN inv :
        /\ i # j /\ SameInvocation(i, j)
        /\ inv[i].tool = "getContent_part_003"
        /\ Done(inv[i]) /\ Done(inv[j])
        /\ IsSuccess(inv[i].result) /\ IsSuccess(inv[j].result)
        /\ Truthy(inv[i].result.structuredContent.savedPath)
        /\ files # {}

\* the first query of s was answered, successfully and without rows
FirstAnswerEmpty(s) == Len(s.resps) >= 1 /\ HasNoRows(s.resps[1])

\* C21: a list tool whose query is answered successfully with no rows (docs
\* empty or missing) returns a Success whose list is empty, never an Error
C21_NoRowsIsEmptySuccess ==
    \A i \in Invocations :
        (Done(inv[i]) /\ inv[i].tool \in ListTools /\ FirstAnswerEmpty(inv[i]))
            => /\ IsSuccess(inv[i].result)
               /\ inv[i].result.structuredContent[ListKey(inv[i].tool)] = <<>>

\* findOrderItems({orderId: "1001"}) was answered 200 without a docs field
C21_Witness ==
    \E i \in Invocations :
        /\ Done(inv[i]) /\ inv[i].tool = "findOrderItems"
        /\ inv[i].args.orderId = "1001"
        /\ FirstAnswerEmpty(inv[i])
        /\ "docs" \notin DOMAIN inv[i].resps[1].body
        /\ inv[i].result.structuredContent.items = <<>>

\* a 200 answer whose JSON body carries responseMessage 'error' or 'fail'
EmbeddedServiceError(r) ==
    IsOk(r) /\ r.decodable /\ Get(r.body, "responseMessage") \in {"error", "fail"}

\* C22: uploadFileToConfig returns an Error whenever the backend answers 200
\* with responseMessage 'error' or 'fail'; it returns Success, with status
\* 'success' and the input configId, only when the HTTP status is a success
\* and responseMessage is neither of the two
C22_EmbeddedErrorIsAnError ==
    \A i \in Invocations :
        (Done(inv[i]) /\ inv[i].tool = "uploadFileToConfig")
            => /\ EmbeddedServiceError(inv[i].resps[1]) => IsError(inv[i].result)
               /\ IsSuccess(inv[i].result)
                    => /\ IsOk(inv[i].resps[1])
                       /\ ~EmbeddedServiceError(inv[i].resps[1])
                       /\ inv[i].result.structuredContent.status = "success"
                       /\ inv[i].result.structuredContent.configId = inv[i].args.configId

\* the upload was answered 200 {responseMessage: 'fail'} and an Error came back
C22_Witness ==
    \E i \in Invocations :
        /\ Done(inv[i]) /\ inv[i].tool = "uploadFileToConfig"
        /\ inv[i].resps[1].status = 200
        /\ Get(inv[i].resps[1].body, "responseMessage") = "fail"
        /\ IsError(inv[i].result)

\* no 'runtime' directory on the way from the handler's directory to the root
NoAnchor == findRuntimeDir(HandlerDir) = NoDir

\* C23: in the persisting getContent, when a configId is supplied and no
\* 'runtime' anchor directory exists between the handler's directory and the
\* root, no directory is made and no file is written, and an invocation that
\* retrieved its text still returns Success, with savedPath absent
C23_NoAnchorSkipsPersistence ==
    \A i \in Invocations :
        (inv[i].tool = "getContent_part_003" /\ Truthy(Get(inv[i].args, "configId"))
         /\ NoAnchor)
            => /\ inv[i].fsOps = <<>>
               /\ files = {}
               /\ (Done(inv[i]) /\ Truthy(inv[i].textData))
                    => /\ IsSuccess(inv[i].result)
                       /\ inv[i].result.structuredContent.savedPath = UNDEF
                       /\ inv[i].result.structuredContent.textData = inv[i].textData

\* getContent({contentId, configId: 'CFG1'}) retrieved text where no runtime
\* directory exists, and returned
C23_Witness ==
    \E i \in Invocations :
        /\ Done(inv[i]) /\ inv[i].tool = "getContent_part_003"
        /\ Get(inv[i].args, "configId") = "CFG1"
        /\ NoAnchor
        /\ Truthy(inv[i].textData)
        /\ IsSuccess(inv[i].result)

\* C24: getLogById, when the DataManagerLog query returns at least one row,
\* returns a Success whose structuredContent fields each equal the same-named
\* field of the first row (errorRecordContentId among them); when the query
\* returns no row it returns an Error
C24_LogFieldsAreTheRowFields ==
    \A i \in Invocations :
        (Done(inv[i]) /\ inv[i].tool = "getLogById")
            => /\ HasRows(inv[i].resps[1])
                    => /\ IsSuccess(inv[i].result)
                       /\ DOMAIN inv[i].result.structuredContent = DataManagerLogFields
                       /\ \A f \in DataManagerLogFields :
                            inv[i].result.structuredContent[f]
                                = Get(DocsOf(inv[i].resps[1])[1], f)
               /\ HasNoRows(inv[i].resps[1]) => IsError(inv[i].result)

\* getLogById({logId: "40160"}) got a row with errorRecordContentId "C1"
C24_Witness ==
    \E i \in Invocations :
        /\ Done(inv[i]) /\ inv[i].tool = "getLogById"
        /\ HasRows(inv[i].resps[1])
        /\ Get(DocsOf(inv[i].resps[1])[1], "errorRecordContentId") = "C1"
        /\ inv[i].result.structuredContent.errorRecordContentId = "C1"

\* a fetched row that counts as an error: a failure status, or an error
\* record id that is a non-blank string
IsErrorRow(row) ==
    \/ Get(row, "statusId") \in {"SERVICE_FAILED", "SERVICE_CRASHED", "DM_LOG_ERROR"}
    \/ /\ Get(row, "errorRecordContentId") \notin {UNDEF, NULL, ""}
       /\ Trim(Get(row, "errorRecordContentId")) # ""

\* C25: listRecentErrors returns, in backend order, exactly the fetched rows
\* whose statusId is SERVICE_FAILED, SERVICE_CRASHED or DM_LOG_ERROR or whose
\* errorRecordContentId is a non-blank string; its query has no status filter
C25_ErrorsAreFilteredClientSide ==
    \A i \in Invocations :
        inv[i].tool = "listRecentErrors"
            => /\ \A k \in DOMAIN inv[i].calls :
                    "statusId" \notin DOMAIN inv[i].calls[k].inputFields
               /\ (Done(inv[i]) /\ IsOk(inv[i].resps[1]) /\ inv[i].resps[1].decodable)
                    => LET kept == SelectSeq(DocsOf(inv[i].resps[1]), IsErrorRow)
                           logs == inv[i].result.structuredContent.logs
                       IN  /\ IsSuccess(inv[i].result)
                           /\ Len(logs) = Len(kept)
                           /\ \A k \in DOMAIN kept :
                                /\ logs[k].logId = kept[k].logId
                                /\ logs[k].statusId = kept[k].statusId
                                /\ logs[k].errorRecordContentId
                                     = OrUndef(kept[k].errorRecordContentId)

\* two rows were fetched, a finished one without error record and then a
\* finished one with error record "C1": only the second is returned
C25_Witness ==
    \E i \in Invocations :
        /\ Done(inv[i]) /\ inv[i].tool = "listRecentErrors"
        /\ HasRows(inv[i].resps[1])
        /\ Len(DocsOf(inv[i].resps[1])) = 2
        /\ ~IsErrorRow(DocsOf(inv[i].resps[1])[1])
        /\ DocsOf(inv[i].resps[1])[2].statusId = "SERVICE_FINISHED"
        /\ DocsOf(inv[i].resps[1])[2].errorRecordContentId = "C1"
        /\ Len(inv[i].result.structuredContent.logs) = 1

\* the number a numeric value stands for
NumberOf(v) ==
    CASE v = "n0" -> 0 [] v = "n1" -> 1 [] v = "n5" -> 5 [] v = "n10" -> 10
      [] v = "n20" -> 20 [] v = "n100" -> 100

\* the backend answered the first query with at most viewSize rows
WithinViewSize(s) == Len(DocsOf(s.resps[1])) <= NumberOf(s.calls[1].viewSize)

\* C26: listRecentErrors never returns more logs than the caller's limit, for
\* every numeric limit, 0 included, and asks for at most 10 rows when the
\* limit is omitted, provided the backend returns at most viewSize rows
C26_NeverMoreThanLimit ==
    \A i \in Invocations :
        inv[i].tool = "listRecentErrors"
            => /\ (Get(inv[i].args, "limit") = UNDEF /\ Len(inv[i].calls) >= 1)
                    => NumberOf(inv[i].calls[1].viewSize) <= 10
               /\ (Done(inv[i]) /\ IsSuccess(inv[i].result) /\ WithinViewSize(inv[i])
                   /\ Get(inv[i].args, "limit") \in NumVals)
                    => Len(inv[i].result.structuredContent.logs)
                            <= NumberOf(inv[i].args.limit)

\* the type of task an invocation of findOrderTasks asks for
RequestedType(s) == Or(Get(s.args, "workEffortTypeId"), "RESOLVE_ONHOLD_ORDER")

\* the rows of the answer satisfy the workEffortTypeId filter of the query
FilterHonoured(s) ==
    \A k \in DOMAIN DocsOf(s.resps[1]) :
        Get(DocsOf(s.resps[1])[k], "workEffortTypeId")
            = s.calls[1].inputFields.workEffortTypeId

\* C27: every task returned by findOrderTasks has the requested
\* workEffortTypeId, 'RESOLVE_ONHOLD_ORDER' when the caller supplied none; in
\* the link-following variant the tasks are, in link order, exactly the linked
\* WorkEfforts whose detail query returned a row of that type
C27_TasksHaveRequestedType ==
    \A i \in Invocations :
        LET s == inv[i]
            tasks == s.result.structuredContent.tasks
            OfType(r) == HasRows(r)
                         /\ Get(DocsOf(r)[1], "workEffortTypeId") = RequestedType(s)
            kept == SelectSeq(SubSeq(s.resps, 2, Len(s.resps)), OfType)
        IN  /\ (s.tool = "findOrderTasks" /\ Done(s) /\ IsSuccess(s.result)
                /\ FilterHonoured(s))
                    => \A k \in DOMAIN tasks : tasks[k].workEffortTypeId = RequestedType(s)
            /\ (s.tool = "findOrderTasks_links" /\ Done(s) /\ IsSuccess(s.result))
                    => /\ \A k \in DOMAIN tasks :
                            tasks[k].workEffortTypeId = RequestedType(s)
                       /\ Len(tasks) = Len(kept)
                       /\ \A k \in DOMAIN kept :
                            tasks[k].workEffortId = DocsOf(kept[k])[1].workEffortId

\* C28: getImportSapiOrderConfig, when the DataManagerConfig row has a
\* runtimeDataId and the RuntimeData query returns a row, returns a Success
\* whose runtimeInfo is that row's runtimeInfo; a RuntimeData answer with a
\* non-success status still gives Success, with runtimeInfo absent
C28_RuntimeInfoFromRuntimeData ==
    \A i \in Invocations :
        (Done(inv[i]) /\ inv[i].tool = "getImportSapiOrderConfig"
         /\ Len(inv[i].resps) = 2)
            => /\ HasRows(inv[i].resps[2])
                    => /\ IsSuccess(inv[i].result)
                       /\ inv[i].result.structuredContent.runtimeInfo
                            = Get(DocsOf(inv[i].resps[2])[1], "runtimeInfo")
               /\ (inv[i].resps[2].kind = "http" /\ ~IsOk(inv[i].resps[2]))
                    => /\ IsSuccess(inv[i].result)
                       /\ inv[i].result.structuredContent.runtimeInfo = UNDEF

\* the answer was read as JSON and has no rows
YieldedNoRows(r) == r.kind = "http" /\ r.decodable /\ Len(DocsOf(r)) = 0

\* the answer was read as JSON and has rows
YieldedRows(r) == r.kind = "http" /\ r.decodable /\ Len(DocsOf(r)) > 0

\* C29: findProductById queries Product by productId first, and by
\* internalName only when the first query yielded no rows; a row found by
\* productId always wins; the result is the Error 'not found' only when both
\* queries yielded no rows
C29_ProductIdBeforeInternalName ==
    \A i \in Invocations :
        LET s == inv[i]
        IN  s.tool = "findProductById"
            => /\ Len(s.calls) <= 2
               /\ Len(s.calls) >= 1
                    => s.calls[1].inputFields = [productId |-> s.args.id]
               /\ Len(s.calls) = 2
                    => /\ s.calls[2].inputFields = [internalName |-> s.args.id]
                       /\ YieldedNoRows(s.resps[1])
               /\ (Done(s) /\ YieldedRows(s.resps[1]))
                    => /\ Len(s.calls) = 1
                       /\ IsSuccess(s.result)
                       /\ s.result.structuredContent.productName
                            = OrUndef(DocsOf(s.resps[1])[1].productName)
               /\ (Done(s) /\ Mentions(s.result, "Product not found: "))
                    => /\ IsError(s.result)
                       /\ Len(s.resps) = 2
                       /\ YieldedNoRows(s.resps[1]) /\ YieldedNoRows(s.resps[2])

\* the query by productId found nothing, the query by internalName found the
\* product, and it was returned
C29_Witness ==
    \E i \in Invocations :
        /\ Done(inv[i]) /\ inv[i].tool = "findProductById"
        /\ Len(inv[i].resps) = 2
        /\ YieldedNoRows(inv[i].resps[1])
        /\ YieldedRows(inv[i].resps[2])
        /\ IsSuccess(inv[i].result)
        /\ inv[i].result.structuredContent.productId = "P1"

\* the MIME types the extension is inferred from, and some others
MimeTypes ==
    {"text/csv", "application/csv", "application/json", "text/xml", "application/xml",
     "application/pdf", "text/plain", "image/png", NULL, UNDEF}

\* the extension a MIME type stands for
ExtensionOf(mimeType) ==
    CASE mimeType \in {"text/csv", "application/csv"} -> ".csv"
      [] mimeType = "application/json" -> ".json"
      [] mimeType \in {"text/xml", "application/xml"} -> ".xml"
      [] mimeType = "application/pdf" -> ".pdf"
      [] OTHER -> ".txt"

\* runtime/<category>File_<configId>/<contentId><ext> for invocation s
FilePath(s) ==
    PathStr(findRuntimeDir(HandlerDir)) \o "/"
        \o (IF Get(s.args, "category") \in {UNDEF, ""} THEN "uploaded" ELSE s.args.category)
        \o "File_" \o s.args.configId \o "/" \o s.args.contentId
        \o ExtensionOf(Get(s.contentRecord, "mimeTypeId"))

\* C30: the persisting getContent writes a file only when a configId was
\* supplied and non-empty text was retrieved, never on a path that returned
\* an Error before persistence; the file is
\* runtime/<category>File_<configId>/<contentId><ext>, with category
\* 'uploaded' by default and ext .csv, .json, .xml or .pdf by MIME type, .txt
\* otherwise; savedPath in the result is the written path
C30_FileWrittenWhereAndWhenSaid ==
    /\ \A m \in MimeTypes : Extension(m) = ExtensionOf(m)
    /\ \A i \in Invocations :
        LET s == inv[i]
        IN  /\ \A f \in files :
                /\ s.tool = "getContent_part_003"
                /\ Truthy(Get(s.args, "configId"))
                /\ f.data # "" /\ f.data = s.textData
                /\ f.path = FilePath(s)
                /\ Done(s) /\ IsSuccess(s.result)
                    => s.result.structuredContent.savedPath = f.path
            /\ (s.tool = "getContent_part_003" /\ Done(s) /\ IsSuccess(s.result)
                /\ s.result.structuredContent.savedPath # UNDEF)
                    => \E f \in files : f.path = s.result.structuredContent.savedPath
            /\ (s.tool = "getContent_part_003" /\ Done(s)
                /\ ~(Truthy(Get(s.args, "configId")) /\ Truthy(s.textData)))
                    => s.fsOps = <<>> /\ files = {}

\* getContent({contentId: 'C1', configId: 'CFG1', category: 'error'}) on
\* content of type application/json wrote /app/runtime/errorFile_CFG1/C1.json
C30_Witness ==
    \E i \in Invocations :
        /\ Done(inv[i]) /\ inv[i].tool = "getContent_part_003"
        /\ IsSuccess(inv[i].result)
        /\ inv[i].result.structuredContent.savedPath = "/app/runtime/errorFile_CFG1/C1.json"
        /\ \E f \in files : f.path = "/app/runtime/errorFile_CFG1/C1.json"

====
